---- MODULE Spec2Model ----
(***************************************************************************)
(* Model of the browser reliability layer of agent7-macos:                 *)
(*   browser/reliable_browser.py  ReliableBrowser (retry, circuit breaker) *)
(*   browser/session_manager.py   SessionManager  (context pool, restart)  *)
(* One ReliableBrowser and one SessionManager instance, driven by a        *)
(* sequential caller.  A call to navigate / click / type_text is a         *)
(* coroutine: its position between awaits is pc, one page-operation        *)
(* attempt per step, the outcome of every page operation chosen by the     *)
(* environment.  SessionManager calls are whole steps of the sequential    *)
(* caller, beside a clock for the idle time; error classification          *)
(* (_is_retryable) is a function of character sequences.                   *)
(***************************************************************************)
EXTENDS Integers, Sequences, FiniteSets, TLC

\* ----------------------------------------------------------------- bounds
\* max_retries is drawn from 0..MaxRetriesBound
MaxRetriesBound == 3
\* circuit_breaker_threshold is drawn from 0..MaxThresholdBound
MaxThresholdBound == 3

\* max_contexts is drawn from 1..MaxContextsBound
MaxContextsBound == 2
\* the browsers create at most this many contexts in one run
MaxContextsCreated == 3

\* a checkpoint's consecutive_failures is drawn from 0..MaxCheckpointFailures
MaxCheckpointFailures == 1

\* config.max_contexts, the default
DefaultMaxContexts == 3

\* config.idle_timeout is drawn from 0..MaxIdleTimeout
MaxIdleTimeout == 1
\* time.time() runs from 1 to MaxClock
MaxClock == 3

\* config.idle_timeout, the default, in seconds
DefaultIdleTimeout == 300

\* an OCR pass reads at most MaxOcrWords words
MaxOcrWords == 2

\* if conf > 30
OcrConfidenceFloor == 30

\* self._max_replans = 3
MaxReplans == 3

\* a plan the language model returns has at most MaxPlanSteps steps
MaxPlanSteps == 2

\* a decomposition has at most MaxSubTasks sub-tasks, with ids 1..MaxSubTasks
MaxSubTasks == 3

\* config.retry_base_delay, in seconds
RetryBaseDelay == 1

Urls == {"a", "b"}
\* Optional[str] last_url: None, the empty string, or a URL
NoUrl == "None"
EmptyUrl == ""
UrlValues == Urls \cup {NoUrl, EmptyUrl}

\* what ReliableBrowser._context can hold: nothing, a context whose page is
\* None, a context with a page
ContextValues == {"none", "nopage", "page"}

\* what one awaited page operation can do under asyncio.wait_for:
\* return, exceed the timeout, raise an error whose message matches the
\* retryable allow-list, raise any other error
Outcomes == {"ok", "timeout", "retryable", "fatal"}

\* navigate, click and type_text go through _retry
GuardedOps == {"navigate", "click", "type_text"}

VARIABLES
    max_retries,                \* config.max_retries
    circuit_breaker_threshold,  \* config.circuit_breaker_threshold
    context,                    \* ReliableBrowser._context
    consecutive_failures,       \* ReliableBrowser._consecutive_failures
    last_url,                   \* ReliableBrowser._last_url
    pc,                         \* position of the call in flight
    cycle,                      \* which _retry call of the wrapper is running
    attempt,                    \* loop variable of _retry
    call,                       \* the call in flight, or the last one finished
    max_contexts,               \* config.max_contexts
    retryable_errors,           \* config.retryable_errors, by the list's name
    error_message,              \* str(error) of the error being classified
    verdict,                    \* what _is_retryable returned for it, if called
    browser,                    \* SessionManager._browser is not None
    contexts,                   \* SessionManager._contexts
    active_context_index,       \* SessionManager._active_context_index
    created,                    \* how many contexts the browsers have created
    closed,                     \* the contexts close() was called on
    idle_timeout,               \* config.idle_timeout
    last_activity,              \* SessionManager._last_activity
    now,                        \* time.time()
    tasks,                      \* the asyncio tasks calling the SessionManager
    overlapped,                 \* a call has started while another was suspended
    element_cache,              \* SmartVision._element_cache, as its set of items
    cache_url,                  \* SmartVision._cache_url
    page_url,                   \* page.url of the page handed to SmartVision
    vision_pc,                  \* position of the SmartVision call in flight
    vision_call,                \* that call, or the last one finished
    components,                 \* which of EnhancedAgent's components are set
    replan_count,               \* EnhancedAgent._replan_count
    current_plan,               \* EnhancedAgent._current_plan
    agent_pc,                   \* position of the EnhancedAgent call in flight
    agent_call,                 \* that call, or the last one finished
    agent_task,                 \* the execute_task call in flight or finished
    agents,                     \* the names in AgentOrchestrator._agents
    on_progress,                \* AgentOrchestrator.on_progress is set
    sub_task,                   \* execute_plan: the sub-task of the last iteration
    completed,                  \* execute_plan: the ids in `completed`
    results,                    \* execute_plan: `results`
    orch_pc                     \* position of the execute_plan call

executor == <<context, consecutive_failures, last_url, pc, cycle, attempt>>

pool == <<browser, contexts, active_context_index, created, closed, last_activity,
          now>>

config == <<max_retries, circuit_breaker_threshold, max_contexts, retryable_errors,
            idle_timeout>>

classifier == <<error_message, verdict>>

concurrency == <<tasks, overlapped>>

\* the components beside the executor and the pool
vision == <<element_cache, cache_url, page_url, vision_pc, vision_call>>

agent == <<components, replan_count, current_plan, agent_pc, agent_call, agent_task>>

orchestration == <<agents, on_progress, sub_task, completed, results, orch_pc>>

others == <<concurrency, vision, agent, orchestration>>

vars == <<config, classifier, executor, call, pool, others>>

\* ------------------------------------------------------------ ReliableBrowser

\* property page: the context's page, or None
Page == context = "page"

IsRetryableAlways(outcome) == TRUE

\* _is_retryable on the error an attempt raised
IsRetryable(outcome) == outcome = "retryable"

CheckCircuitBreakerStrict(failures) == failures > circuit_breaker_threshold

\* _check_circuit_breaker: TRUE when it raises CircuitBreakerOpen
CheckCircuitBreaker(failures) == failures >= circuit_breaker_threshold

RecordSuccessKeeping(failures) == failures

RecordSuccessDecrementing(failures) == IF failures > 0 THEN failures - 1 ELSE 0

\* _record_success
RecordSuccess(failures) == 0

RecordFailureTwice(failures) == failures + 2

\* _record_failure
RecordFailure(failures) == failures + 1

DelayDoubled(a) == RetryBaseDelay * (2 ^ (a + 1))

\* delay = retry_base_delay * (2 ** attempt)
Delay(a) == RetryBaseDelay * (2 ^ a)

MoreAttemptsOffByOne(a) == a < max_retries

\* if attempt < max_retries - 1: sleep, then the next iteration
MoreAttempts(a) == a < max_retries - 1

WrapperResultPropagating(error) ==
    IF error \in {"CircuitBreakerOpen", "fatal"}
    THEN [status |-> "raised", error |-> error]
    ELSE [status |-> "failure", error |-> error]

\* the except clauses of navigate / click / type_text: CircuitBreakerOpen is
\* re-raised, every other exception becomes {"success": False, "error": str(e)}
WrapperResult(error) ==
    IF error = "CircuitBreakerOpen"
    THEN [status |-> "raised", error |-> error]
    ELSE [status |-> "failure", error |-> error]

\* the record of a call that has just started
NewCall(op, url, restoring, failures) ==
    [op             |-> op,
     failures_before |-> consecutive_failures,
     status         |-> "running",
     error          |-> "none",
     url            |-> url,
     restoring      |-> restoring,
     had_page       |-> Page,
     start_failures |-> failures,
     last_url_before |-> last_url,
     cycle_failures |-> failures,
     outcomes       |-> <<<<>>, <<>>>>,
     sleeps         |-> <<>>,
     returned       |-> <<>>,
     repeated       |-> <<>>]

NoCall == [NewCall("none", NoUrl, FALSE, 0) EXCEPT !.status = "returned",
                                                   !.had_page = FALSE]

\* a call that ends by returning `status` (no exception)
Finished(c, status) == [c EXCEPT !.status = status]

\* a call in which `error` was raised inside the wrapper's try block
Raised(c, error) ==
    [c EXCEPT !.status = WrapperResult(error).status,
              !.error  = WrapperResult(error).error]

Idle ==
    /\ pc' = "idle"
    /\ cycle' = 0
    /\ attempt' = 0

EnterRetrySharedBudget(c, n, failures) ==
    IF CheckCircuitBreaker(failures)
    THEN /\ call' = Raised(c, "CircuitBreakerOpen")
         /\ Idle
    ELSE IF max_retries <= 0
    THEN /\ call' = Raised(c, "TypeError")
         /\ Idle
    ELSE /\ call' = [c EXCEPT !.cycle_failures = failures, !.sleeps = <<>>]
         /\ pc' = "attempt"
         /\ cycle' = n
         /\ attempt' = IF n = 1 THEN 0 ELSE attempt

\* _retry up to its first await: the breaker check, then the first iteration
\* of the loop; with max_retries = 0 the loop body never runs and
\* `raise last_error` raises TypeError (last_error is None)
EnterRetry(c, n, failures) ==
    IF CheckCircuitBreaker(failures)
    THEN /\ call' = Raised(c, "CircuitBreakerOpen")
         /\ Idle
    ELSE IF max_retries <= 0
    THEN /\ call' = Raised(c, "TypeError")
         /\ Idle
    ELSE /\ call' = [c EXCEPT !.cycle_failures = failures, !.sleeps = <<>>]
         /\ pc' = "attempt"
         /\ cycle' = n
         /\ attempt' = 0

\* navigate / click / type_text up to the first await
StartGuarded(op, url, restoring, failures) ==
    LET c == NewCall(op, url, restoring, failures) IN
    IF ~Page
    THEN /\ call' = [c EXCEPT !.status = "failure",
                              !.error = "Browser not initialized"]
         /\ Idle
    ELSE EnterRetry(c, 1, failures)

Navigate(url) ==
    /\ pc = "idle"
    /\ StartGuarded("navigate", url, FALSE, consecutive_failures)
    /\ UNCHANGED <<pool, config, others, classifier, context, consecutive_failures, last_url>>

Click ==
    /\ pc = "idle"
    /\ StartGuarded("click", NoUrl, FALSE, consecutive_failures)
    /\ UNCHANGED <<pool, config, others, classifier, context, consecutive_failures, last_url>>

TypeText ==
    /\ pc = "idle"
    /\ StartGuarded("type_text", NoUrl, FALSE, consecutive_failures)
    /\ UNCHANGED <<pool, config, others, classifier, context, consecutive_failures, last_url>>

\* the call record with the outcome of this attempt appended
Attempted(outcome) ==
    [call EXCEPT !.outcomes[cycle] = Append(@, outcome)]

\* one iteration of the loop of _retry, up to the awaited operation's end:
\* the operation succeeds
AttemptOk ==
    /\ pc = "attempt"
    /\ consecutive_failures' = RecordSuccess(consecutive_failures)
    /\ IF call.op = "navigate"
       THEN \* self._last_url = url, then await self.page.title()
            /\ last_url' = call.url
            /\ call' = Attempted("ok")
            /\ pc' = "title"
            /\ UNCHANGED <<cycle, attempt>>
       ELSE /\ UNCHANGED last_url
            /\ IF cycle = 1
               THEN \* wait_for_selector returned: the second _retry
                    EnterRetry(Attempted("ok"), 2, consecutive_failures')
               ELSE /\ call' = Finished(Attempted("ok"), "success")
                    /\ Idle
    /\ UNCHANGED <<pool, config, others, classifier, context>>

\* what _retry does after _record_failure when the attempt's error is retried:
\* sleep and go round again, or leave the loop and raise last_error
RetryOrGiveUp(outcome) ==
    IF MoreAttempts(attempt)
    THEN /\ call' = Attempted(outcome)
         /\ pc' = "sleep"
         /\ UNCHANGED <<cycle, attempt>>
    ELSE /\ call' = Raised(Attempted(outcome), outcome)
         /\ Idle

\* one iteration in which wait_for raises asyncio.TimeoutError
AttemptTimeout ==
    /\ pc = "attempt"
    /\ consecutive_failures' = RecordFailure(consecutive_failures)
    /\ RetryOrGiveUp("timeout")
    /\ UNCHANGED <<pool, config, others, classifier, context, last_url>>

\* one iteration in which the operation raises another exception: recorded,
\* then re-raised at once unless _is_retryable accepts it
AttemptError(outcome) ==
    /\ pc = "attempt"
    /\ consecutive_failures' = RecordFailure(consecutive_failures)
    /\ IF ~IsRetryable(outcome)
       THEN /\ call' = Raised(Attempted(outcome), outcome)
            /\ Idle
       ELSE RetryOrGiveUp(outcome)
    /\ UNCHANGED <<pool, config, others, classifier, context, last_url>>

SleepCheckingBreaker ==
    /\ pc = "sleep"
    /\ IF CheckCircuitBreaker(consecutive_failures)
       THEN /\ call' = Raised(call, "CircuitBreakerOpen")
            /\ Idle
       ELSE /\ call' = [call EXCEPT !.sleeps = Append(@, Delay(attempt))]
            /\ pc' = "attempt"
            /\ attempt' = attempt + 1
            /\ UNCHANGED cycle
    /\ UNCHANGED <<pool, config, others, classifier, context, consecutive_failures, last_url>>

\* await asyncio.sleep(delay), then the next iteration of the loop
Sleep ==
    /\ pc = "sleep"
    /\ call' = [call EXCEPT !.sleeps = Append(@, Delay(attempt))]
    /\ pc' = "attempt"
    /\ attempt' = attempt + 1
    /\ UNCHANGED <<pool, config, others, classifier, context, consecutive_failures, last_url, cycle>>

\* navigate after _retry returned: title = await self.page.title()
Title(ok) ==
    /\ pc = "title"
    /\ call' = IF ok THEN Finished(call, "success") ELSE Raised(call, "title")
    /\ Idle
    /\ UNCHANGED <<pool, config, others, classifier, context, consecutive_failures, last_url>>

\* set_context
SetContext(c) ==
    /\ pc = "idle"
    /\ context' = c
    /\ call' = Finished(NewCall("set_context", NoUrl, FALSE, consecutive_failures),
                        "returned")
    /\ UNCHANGED <<pool, config, others, classifier, consecutive_failures, last_url, pc, cycle, attempt>>

ExtractContentRecordingSuccess(outcome) ==
    /\ pc = "idle"
    /\ call' = Finished(NewCall("extract_content", NoUrl, FALSE,
                                consecutive_failures), "success")
    /\ consecutive_failures' = IF Page /\ outcome = "ok"
                               THEN RecordSuccess(consecutive_failures)
                               ELSE consecutive_failures
    /\ UNCHANGED <<pool, config, others, classifier, context, last_url, pc, cycle, attempt>>

\* extract_content: one awaited page read under wait_for, no retry, no breaker
ExtractContent(outcome) ==
    /\ pc = "idle"
    /\ LET c == NewCall("extract_content", NoUrl, FALSE, consecutive_failures) IN
       call' = IF ~Page
               THEN [c EXCEPT !.status = "failure",
                              !.error = "Browser not initialized"]
               ELSE IF outcome = "ok"
               THEN [c EXCEPT !.status = "success", !.outcomes[1] = <<outcome>>]
               ELSE [c EXCEPT !.status = "failure", !.error = outcome,
                              !.outcomes[1] = <<outcome>>]
    /\ UNCHANGED <<pool, config, others, classifier, context, consecutive_failures, last_url, pc, cycle,
                   attempt>>

\* get_screenshot: base64 of the screenshot, "" without a page or on any error
GetScreenshot(outcome) ==
    /\ pc = "idle"
    /\ LET c == NewCall("get_screenshot", NoUrl, FALSE, consecutive_failures) IN
       call' = IF ~Page
               THEN [c EXCEPT !.status = "returned", !.returned = <<"">>]
               ELSE IF outcome = "ok"
               THEN [c EXCEPT !.status = "returned", !.returned = <<"base64">>,
                              !.outcomes[1] = <<outcome>>]
               ELSE [c EXCEPT !.status = "returned", !.returned = <<"">>,
                              !.outcomes[1] = <<outcome>>]
    /\ UNCHANGED <<pool, config, others, classifier, context, consecutive_failures, last_url, pc, cycle,
                   attempt>>

\* get_checkpoint
GetCheckpoint ==
    /\ pc = "idle"
    /\ call' = [NewCall("get_checkpoint", NoUrl, FALSE, consecutive_failures)
                EXCEPT !.status = "returned",
                       !.returned = <<[last_url |-> last_url,
                                       consecutive_failures |-> consecutive_failures]>>]
    /\ UNCHANGED <<pool, config, others, classifier, context, consecutive_failures, last_url, pc, cycle,
                   attempt>>

\* the checkpoints a caller can hand to restore_from_checkpoint
Checkpoints == [last_url : UrlValues,
                consecutive_failures : 0..MaxCheckpointFailures]

RestoredFailuresFromCheckpoint(checkpoint) == checkpoint.consecutive_failures

\* self._consecutive_failures = 0  # Reset on recovery
RestoredFailures(checkpoint) == 0

RenavigatesWithoutPage(checkpoint) == checkpoint.last_url \notin {NoUrl, EmptyUrl}

\* if url and self.page
Renavigates(checkpoint) == checkpoint.last_url \notin {NoUrl, EmptyUrl} /\ Page

\* restore_from_checkpoint up to its first await: the reset, then navigate(url)
\* when the checkpoint has a URL and there is a page
RestoreFromCheckpoint(checkpoint) ==
    /\ pc = "idle"
    /\ consecutive_failures' = RestoredFailures(checkpoint)
    /\ IF Renavigates(checkpoint)
       THEN StartGuarded("navigate", checkpoint.last_url, TRUE,
                         consecutive_failures')
       ELSE /\ call' = Finished(NewCall("restore_from_checkpoint",
                                        checkpoint.last_url, TRUE,
                                        consecutive_failures'), "returned")
            /\ Idle
    /\ UNCHANGED <<pool, config, others, classifier, context, last_url>>


\* ------------------------------------------------------ error classification
\* strings are sequences of one-character strings

LowerLetters ==
    <<"a", "b", "c", "d", "e", "f", "g", "h", "i", "j", "k", "l", "m">> \o
    <<"n", "o", "p", "q", "r", "s", "t", "u", "v", "w", "x", "y", "z">>

UpperLetters ==
    <<"A", "B", "C", "D", "E", "F", "G", "H", "I", "J", "K", "L", "M">> \o
    <<"N", "O", "P", "Q", "R", "S", "T", "U", "V", "W", "X", "Y", "Z">>

\* the position of character c in the alphabet `letters`, 0 when absent
LetterIndex(letters, c) ==
    IF \E i \in 1..Len(letters) : letters[i] = c
    THEN CHOOSE i \in 1..Len(letters) : letters[i] = c
    ELSE 0

\* str.lower() on one character
ToLower(c) ==
    IF LetterIndex(UpperLetters, c) # 0
    THEN LowerLetters[LetterIndex(UpperLetters, c)]
    ELSE c

\* str.upper() on one character
ToUpper(c) ==
    IF LetterIndex(LowerLetters, c) # 0
    THEN UpperLetters[LetterIndex(LowerLetters, c)]
    ELSE c

\* str.lower()
Lower(str) == [i \in 1..Len(str) |-> ToLower(str[i])]

\* str.upper()
Upper(str) == [i \in 1..Len(str) |-> ToUpper(str[i])]

\* str.capitalize()
Capitalize(str) ==
    IF str = <<>> THEN str ELSE <<ToUpper(str[1])>> \o Lower(Tail(str))

\* sub in str
Contains(sub, str) ==
    \E i \in 0..(Len(str) - Len(sub)) : SubSeq(str, i + 1, i + Len(sub)) = sub

\* the default of config.retryable_errors
DefaultRetryableErrors ==
    <<<<"t", "i", "m", "e", "o", "u", "t">>,
      <<"t", "a", "r", "g", "e", "t", " ", "c", "l", "o", "s", "e", "d">>,
      <<"n", "a", "v", "i", "g", "a", "t", "i", "o", "n", " ", "f", "a", "i", "l", "e", "d">>,
      <<"e", "l", "e", "m", "e", "n", "t", " ", "i", "s", " ", "d", "e", "t", "a", "c", "h", "e", "d">>,
      <<"f", "r", "a", "m", "e", " ", "w", "a", "s", " ", "d", "e", "t", "a", "c", "h", "e", "d">>,
      <<"e", "x", "e", "c", "u", "t", "i", "o", "n", " ", "c", "o", "n", "t", "e", "x", "t", " ", "w", "a", "s", " ", "d", "e", "s", "t", "r", "o", "y", "e", "d">>,
      <<"c", "o", "n", "n", "e", "c", "t", "i", "o", "n", " ", "r", "e", "f", "u", "s", "e", "d">>,
      <<"n", "e", "t", ":", ":", "E", "R", "R", "_", "C", "O", "N", "N", "E", "C", "T", "I", "O", "N", "_", "R", "E", "S", "E", "T">>>>

\* a list a caller configures
CustomRetryableErrors ==
    <<<<"T", "i", "m", "e", "o", "u", "t">>,
      <<"c", "l", "o", "s", "e", "d">>>>

\* the lists config.retryable_errors is drawn from, by name
RetryableErrorLists ==
    [default |-> DefaultRetryableErrors, custom |-> CustomRetryableErrors]

\* self.config.retryable_errors
ConfiguredErrors == RetryableErrorLists[retryable_errors]

\* _is_retryable: error_str = str(error).lower();
\* any(e in error_str for e in self.config.retryable_errors)
IsRetryableMessage(errors, message) ==
    \E k \in 1..Len(errors) : Contains(errors[k], Lower(message))

\* the entries of the lists an error message can quote
Entries ==
    UNION {{RetryableErrorLists[n][k] : k \in 1..Len(RetryableErrorLists[n])} :
              n \in DOMAIN RetryableErrorLists}

\* what surrounds the quoted entry in an error message
Affixes == {<<>>, <<":", " ">>}

\* the messages of the errors a page operation raises: an entry of an
\* allow-list in some letter case inside other text, or unrelated text
ErrorMessages ==
    {p \o quoted \o q :
        p \in Affixes, q \in Affixes,
        quoted \in UNION {{e, Lower(e), Upper(e), Capitalize(e)} : e \in Entries}}
    \cup {<<"b", "o", "o", "m">>, <<>>}

\* _is_retryable(error) is called on the error an attempt raised
Classify ==
    /\ verdict = <<>>
    /\ verdict' = <<IsRetryableMessage(ConfiguredErrors, error_message)>>
    /\ UNCHANGED <<config, others, error_message, executor, call, pool>>

\* the next attempt raises another error
RaiseError(message) ==
    /\ verdict # <<>>
    /\ error_message' = message
    /\ verdict' = <<>>
    /\ UNCHANGED <<config, others, executor, call, pool>>

\* no error is being classified
ClassifierInit ==
    /\ retryable_errors = "default"
    /\ error_message = <<>>
    /\ verdict = <<>>

\* ------------------------------------------------------------ SessionManager

\* the record of a SessionManager call that has returned `value`; `repeated`
\* holds the result of the call before it when that was the same operation
PoolCall(op, status, value) ==
    [NewCall(op, NoUrl, FALSE, consecutive_failures)
        EXCEPT !.status = status, !.returned = value,
               !.repeated = IF call.op = op
                            THEN <<[status   |-> call.status,
                                    returned |-> call.returned,
                                    outcomes |-> call.outcomes[1]]>>
                            ELSE <<>>]

\* initialize: self._browser = Browser(config=browser_config);
\* self._last_activity = time.time()
Initialize ==
    /\ browser' = TRUE
    /\ last_activity' = now

\* seq[i] of a Python list raises IndexError outside -len..len-1
IndexInRange(seq, i) == -Len(seq) <= i /\ i < Len(seq)

\* seq[i] of a Python list, i counted from 0, from the end when negative
At(seq, i) == IF i >= 0 THEN seq[i + 1] ELSE seq[Len(seq) + i + 1]

ReusesActiveNever == FALSE

\* if self._contexts and self._active_context_index >= 0
ReusesActive == contexts # <<>> /\ active_context_index >= 0

\* get_context; createOk: browser.new_context() returns (it raises otherwise)
GetContext(createOk) ==
    /\ pc = "idle"
    /\ createOk => created < MaxContextsCreated
    /\ IF ReusesActive
       THEN \* self._contexts[self._active_context_index]: IndexError when the
            \* index is past the end of the list
            /\ call' = IF IndexInRange(contexts, active_context_index)
                       THEN PoolCall("get_context", "returned",
                                     <<At(contexts, active_context_index)>>)
                       ELSE [PoolCall("get_context", "raised", <<>>)
                                EXCEPT !.error = "IndexError"]
            /\ last_activity' = now
            /\ UNCHANGED <<browser, contexts, active_context_index, created, closed>>
       ELSE /\ Initialize
            /\ IF Len(contexts) >= max_contexts
               THEN \* Reuse oldest context: self._contexts[0]
                    /\ call' = IF IndexInRange(contexts, 0)
                               THEN PoolCall("get_context", "returned",
                                             <<At(contexts, 0)>>)
                               ELSE [PoolCall("get_context", "raised", <<>>)
                                        EXCEPT !.error = "IndexError"]
                    /\ UNCHANGED <<contexts, active_context_index, created, closed>>
               ELSE IF createOk
               THEN /\ created' = created + 1
                    /\ contexts' = Append(contexts, created')
                    /\ active_context_index' = Len(contexts') - 1
                    /\ call' = PoolCall("get_context", "returned", <<created'>>)
                    /\ UNCHANGED closed
               ELSE /\ call' = PoolCall("get_context", "raised", <<>>)
                    /\ UNCHANGED <<contexts, active_context_index, created, closed>>
    /\ UNCHANGED <<config, others, classifier, executor, now>>

PoolFullStrict == Len(contexts) > max_contexts

PoolFullNever == FALSE

\* if len(self._contexts) >= self.config.max_contexts (new_context)
PoolFull == Len(contexts) >= max_contexts

EvictKeeping(ctxs) == ctxs

\* oldest = self._contexts.pop(0): what stays in the pool
Evict(ctxs) == Tail(ctxs)

EvictionPropagates(closeRaises) == closeRaises

\* try: await oldest.close() / except Exception: pass: whether the error of
\* the evicted context's close() reaches the caller of new_context
EvictionRaises(closeRaises) == FALSE

\* new_context; closeRaises: the evicted context's close() raises,
\* createOk: browser.new_context() returns (it raises otherwise);
\* pop(0) on an empty pool raises IndexError.  The record keeps the outcome
\* of the eviction's close() and of the creation, when they were awaited
NewContext(createOk, closeRaises) ==
    /\ pc = "idle"
    /\ createOk => created < MaxContextsCreated
    /\ closeRaises => (PoolFull /\ contexts # <<>>)
    /\ Initialize
    /\ IF PoolFull /\ contexts = <<>>
       THEN /\ call' = [PoolCall("new_context", "raised", <<>>)
                           EXCEPT !.error = "IndexError"]
            /\ UNCHANGED <<contexts, active_context_index, created, closed>>
       ELSE LET kept == IF PoolFull THEN Evict(contexts) ELSE contexts
                evicted == IF ~PoolFull THEN <<>>
                           ELSE IF closeRaises THEN <<"fatal">> ELSE <<"ok">>
            IN  /\ closed' = IF PoolFull THEN closed \cup {Head(contexts)}
                                         ELSE closed
                /\ IF EvictionRaises(closeRaises)
                   THEN /\ contexts' = kept
                        /\ call' = [PoolCall("new_context", "raised", <<>>)
                                       EXCEPT !.outcomes[1] = evicted]
                        /\ UNCHANGED <<active_context_index, created>>
                   ELSE IF createOk
                   THEN /\ created' = created + 1
                        /\ contexts' = Append(kept, created')
                        /\ active_context_index' = Len(contexts') - 1
                        /\ call' = [PoolCall("new_context", "returned",
                                             <<created'>>)
                                       EXCEPT !.outcomes[1] = evicted,
                                              !.outcomes[2] = <<"ok">>]
                   ELSE /\ contexts' = kept
                        /\ call' = [PoolCall("new_context", "raised", <<>>)
                                       EXCEPT !.outcomes[1] = evicted,
                                              !.outcomes[2] = <<"fatal">>]
                        /\ UNCHANGED <<active_context_index, created>>
    /\ UNCHANGED <<config, others, classifier, executor, now>>

\* _close_contexts: close() on every context (exceptions swallowed), then
\* clear the pool
CloseContexts ==
    /\ closed' = closed \cup {contexts[i] : i \in 1..Len(contexts)}
    /\ contexts' = <<>>
    /\ active_context_index' = -1

RECURSIVE ReadableUrls(_, _)
\* the loop of restart that collects ctx.page.url, skipping the contexts in
\* `unreadable` (no page, or reading the URL raises)
ReadableUrls(ctxs, unreadable) ==
    IF ctxs = <<>> THEN <<>>
    ELSE IF Head(ctxs) \in unreadable
    THEN ReadableUrls(Tail(ctxs), unreadable)
    ELSE <<Head(ctxs)>> \o ReadableUrls(Tail(ctxs), unreadable)

RestartWithoutClosing(unreadable) ==
    /\ pc = "idle"
    /\ Initialize
    /\ call' = PoolCall("restart", "returned", ReadableUrls(contexts, unreadable))
    /\ UNCHANGED <<config, others, classifier, executor, contexts, active_context_index,
                   created, closed, now>>

RestartClearingBreaker(unreadable) ==
    /\ pc = "idle"
    /\ CloseContexts
    /\ Initialize
    /\ consecutive_failures' = 0
    /\ call' = PoolCall("restart", "returned", ReadableUrls(contexts, unreadable))
    /\ UNCHANGED <<config, others, classifier, context, last_url, pc, cycle, attempt, created,
                   now>>

\* restart: collect the URLs, close every context and the browser,
\* initialize again, return the URLs (a URL is named by its context)
Restart(unreadable) ==
    /\ pc = "idle"
    /\ CloseContexts
    /\ Initialize
    /\ call' = PoolCall("restart", "returned", ReadableUrls(contexts, unreadable))
    /\ UNCHANGED <<config, others, classifier, executor, created, now>>

\* what close() awaited: nothing when there is neither a context nor a
\* browser, else whether one of the close() calls raised
CloseOutcomes(raises) ==
    IF contexts = <<>> /\ ~browser THEN <<>>
    ELSE IF raises THEN <<"fatal">> ELSE <<"ok">>

ClosePropagating(raises) ==
    /\ pc = "idle"
    /\ raises => (contexts # <<>> \/ browser)
    /\ CloseContexts
    /\ browser' = (browser /\ raises)
    /\ call' = [PoolCall("close", IF browser /\ raises THEN "raised"
                                  ELSE "returned", <<>>)
                   EXCEPT !.outcomes[1] = CloseOutcomes(raises)]
    /\ UNCHANGED <<config, others, classifier, executor, created, last_activity, now>>

\* close; raises: a context's close() or the browser's close() raises, which
\* the try blocks swallow
Close(raises) ==
    /\ pc = "idle"
    /\ raises => (contexts # <<>> \/ browser)
    /\ CloseContexts
    /\ browser' = FALSE
    /\ call' = [PoolCall("close", "returned", <<>>)
                   EXCEPT !.outcomes[1] = CloseOutcomes(raises)]
    /\ UNCHANGED <<config, others, classifier, executor, created, last_activity, now>>

HealthyWithoutEvaluation(pageOk, evalOk) == browser /\ contexts # <<>>

\* what is_healthy returns; pageOk: the active context has a page,
\* evalOk: page.evaluate("() => true") returns (it raises otherwise)
Healthy(pageOk, evalOk) ==
    /\ browser
    /\ contexts # <<>>
    /\ IndexInRange(contexts, active_context_index)
    /\ pageOk
    /\ evalOk

\* is_healthy
IsHealthy(pageOk, evalOk) ==
    /\ pc = "idle"
    /\ call' = [PoolCall("is_healthy", "returned", <<Healthy(pageOk, evalOk)>>)
                   EXCEPT !.outcomes[1] =
                       IF /\ browser
                          /\ contexts # <<>>
                          /\ IndexInRange(contexts, active_context_index)
                          /\ pageOk
                       THEN <<IF evalOk THEN "ok" ELSE "fatal">>
                       ELSE <<>>]
    /\ UNCHANGED <<config, others, classifier, executor, pool>>

\* seconds_idle
SecondsIdle == IF last_activity = 0 THEN 0 ELSE now - last_activity

\* the condition under which cleanup_if_idle closes contexts
IdleCleanupDue == SecondsIdle > idle_timeout /\ Len(contexts) > 1

\* the contexts cleanup_if_idle keeps: those at the active index
KeptWhenIdle ==
    IF 0 <= active_context_index /\ active_context_index < Len(contexts)
    THEN <<At(contexts, active_context_index)>>
    ELSE <<>>

IndexAfterCleanupKept == active_context_index

\* self._active_context_index = 0
IndexAfterCleanup == 0

\* cleanup_if_idle: close and remove every context whose position is not the
\* active index (close() exceptions swallowed), then set the index to 0
CleanupIfIdle ==
    /\ pc = "idle"
    /\ IF IdleCleanupDue
       THEN /\ closed' = closed \cup ({contexts[i] : i \in 1..Len(contexts)}
                                      \ {KeptWhenIdle[i] : i \in 1..Len(KeptWhenIdle)})
            /\ contexts' = KeptWhenIdle
            /\ active_context_index' = IndexAfterCleanup
       ELSE UNCHANGED <<contexts, active_context_index, closed>>
    /\ call' = [PoolCall("cleanup_if_idle", "returned", <<>>)
                   EXCEPT !.outcomes[1] = IF IdleCleanupDue THEN <<"ok">> ELSE <<>>]
    /\ UNCHANGED <<config, others, classifier, executor, browser, created, last_activity, now>>

\* time.time() advances
Tick ==
    /\ pc = "idle"
    /\ now < MaxClock
    /\ now' = now + 1
    /\ UNCHANGED <<config, others, classifier, executor, call, browser, contexts,
                   active_context_index, created, closed, last_activity>>

PoolNext ==
    \/ \E ok \in BOOLEAN : GetContext(ok)
    \/ \E ok \in BOOLEAN, closeRaises \in BOOLEAN : NewContext(ok, closeRaises)
    \/ \E u \in SUBSET {contexts[i] : i \in 1..Len(contexts)} : Restart(u)
    \/ \E raises \in BOOLEAN : Close(raises)

\* ------------------------------------------- SessionManager, concurrent calls
\* Two asyncio tasks call new_context / get_context on one SessionManager;
\* a task runs from one await to the next without interruption, and another
\* task may run while it is suspended in `await oldest.close()` or in
\* `await self._browser.new_context()`.

Tasks == {"A", "B"}

\* a task outside any call, with the result of its last call
TaskIdle(op, status, value) ==
    [pc |-> "idle", op |-> op, oldest |-> <<>>, status |-> status,
     returned |-> value]

\* a task suspended at an await of `op`
TaskAt(pc_, op, oldest) ==
    [pc |-> pc_, op |-> op, oldest |-> oldest, status |-> "running",
     returned |-> <<>>]

\* task t starts a call: some other task is suspended inside one
Overlaps(t) == \E other \in Tasks \ {t} : tasks[other].pc # "idle"

\* new_context up to its first await: initialize() (which never suspends),
\* the capacity test and pop(0)
StartNewContext(t) ==
    /\ tasks[t].pc = "idle"
    /\ Initialize
    /\ overlapped' = (overlapped \/ Overlaps(t))
    /\ IF PoolFull /\ contexts = <<>>
       THEN /\ tasks' = [tasks EXCEPT ![t] = TaskIdle("new_context", "raised", <<>>)]
            /\ UNCHANGED contexts
       ELSE IF PoolFull
       THEN /\ contexts' = Tail(contexts)
            /\ tasks' = [tasks EXCEPT
                            ![t] = TaskAt("closing", "new_context", <<Head(contexts)>>)]
       ELSE /\ tasks' = [tasks EXCEPT ![t] = TaskAt("creating", "new_context", <<>>)]
            /\ UNCHANGED contexts
    /\ UNCHANGED <<config, classifier, executor, call, vision, agent, orchestration, active_context_index, created,
                   closed, now>>

\* `await oldest.close()` ends, raising or not: on to the creation
FinishEviction(t, closeRaises) ==
    /\ tasks[t].pc = "closing"
    /\ closed' = closed \cup {tasks[t].oldest[1]}
    /\ tasks' = [tasks EXCEPT
                    ![t] = IF EvictionRaises(closeRaises)
                           THEN TaskIdle(tasks[t].op, "raised", <<>>)
                           ELSE TaskAt("creating", tasks[t].op, <<>>)]
    /\ UNCHANGED <<config, classifier, executor, call, vision, agent, orchestration, browser, contexts,
                   active_context_index, created, last_activity, now, overlapped>>

\* `await self._browser.new_context()` ends: append, make active, return
FinishCreation(t, createOk) ==
    /\ tasks[t].pc = "creating"
    /\ createOk => created < MaxContextsCreated
    /\ IF createOk
       THEN /\ created' = created + 1
            /\ contexts' = Append(contexts, created')
            /\ active_context_index' = Len(contexts') - 1
            /\ tasks' = [tasks EXCEPT
                            ![t] = TaskIdle(tasks[t].op, "returned", <<created'>>)]
       ELSE /\ tasks' = [tasks EXCEPT ![t] = TaskIdle(tasks[t].op, "raised", <<>>)]
            /\ UNCHANGED <<contexts, active_context_index, created>>
    /\ UNCHANGED <<config, classifier, executor, call, vision, agent, orchestration, browser, closed, last_activity,
                   now, overlapped>>

\* get_context up to its first await: the early return of the active context,
\* else initialize(), the reuse of the oldest at capacity, else the creation
StartGetContext(t) ==
    /\ tasks[t].pc = "idle"
    /\ overlapped' = (overlapped \/ Overlaps(t))
    /\ last_activity' = now
    /\ IF ReusesActive
       THEN /\ tasks' = [tasks EXCEPT
                ![t] = IF IndexInRange(contexts, active_context_index)
                       THEN TaskIdle("get_context", "returned",
                                     <<At(contexts, active_context_index)>>)
                       ELSE TaskIdle("get_context", "raised", <<>>)]
            /\ UNCHANGED browser
       ELSE /\ browser' = TRUE
            /\ tasks' = [tasks EXCEPT
                ![t] = IF Len(contexts) >= max_contexts
                       THEN IF IndexInRange(contexts, 0)
                            THEN TaskIdle("get_context", "returned", <<At(contexts, 0)>>)
                            ELSE TaskIdle("get_context", "raised", <<>>)
                       ELSE TaskAt("creating", "get_context", <<>>)]
    /\ UNCHANGED <<config, classifier, executor, call, vision, agent, orchestration, contexts, active_context_index,
                   created, closed, now>>

ConcurrencyInit ==
    /\ tasks = [t \in Tasks |-> TaskIdle("none", "returned", <<>>)]
    /\ overlapped = FALSE

ConcurrentNext ==
    \E t \in Tasks :
        \/ StartNewContext(t)
        \/ StartGetContext(t)
        \/ \E closeRaises \in BOOLEAN : FinishEviction(t, closeRaises)
        \/ \E createOk \in BOOLEAN : FinishCreation(t, createOk)

\* ---------------------------------------------------------------- SmartVision
\* find_element is a coroutine: one step per awaited page / model / OCR
\* capability, whose outcome the environment chooses.

\* a str argument that is None or "" (both falsy)
NoText == <<>>

\* the arguments of find_element: css_selector, role and llm by presence,
\* text and description by value
FindArgs ==
    [css : BOOLEAN, text : {NoText, <<"O", "k">>}, role : BOOLEAN,
     description : {NoText, <<"g", "o">>}, llm : BOOLEAN]

\* what a locator strategy of tier 1 meets: a visible element, a hidden one,
\* none, or an exception
SelectorOutcomes == {"visible", "hidden", "absent", "raises"}

\* what llm.ainvoke answers: a JSON object with found true and coordinates
\* and a selector, one with found true alone, one with found false, text
\* without braces, braces that do not parse, or an exception
VisionResponses ==
    {"found_full", "found_bare", "found_false", "no_json", "bad_json", "raises"}

\* {"found": False}
NotFound ==
    [found |-> FALSE, tier |-> 0, method |-> "none", selector |-> "none",
     coordinates |-> <<>>, confidence |-> -1, error |-> "none"]

\* {"found": False, "error": "Element not found by any tier"}
NotFoundByAnyTier == [NotFound EXCEPT !.error = "Element not found by any tier"]

\* the tier-1 strategies _find_by_selector goes through for these arguments
Strategies(args) ==
    (IF args.css THEN <<"css">> ELSE <<>>)
    \o (IF args.text # NoText THEN <<"text">> ELSE <<>>)
    \o (IF args.role THEN <<"role">> ELSE <<>>)

\* the result of a tier-1 strategy that met a visible element
SelectorMatch(strategy) ==
    [NotFound EXCEPT !.found = TRUE, !.tier = 1, !.method = strategy,
                     !.selector = IF strategy = "css" THEN "css_selector"
                                  ELSE "none"]

VisionAvailableWithoutDescription(args) == args.llm

\* if llm and description
VisionAvailable(args) == args.llm /\ args.description # NoText

\* search_text = text or description
SearchText(args) == IF args.text # NoText THEN args.text ELSE args.description

VisionResultRaising(response) ==
    IF response \in {"found_full", "found_bare"}
    THEN [NotFound EXCEPT !.found = TRUE, !.tier = 2, !.method = "llm"]
    ELSE IF response = "bad_json"
    THEN [NotFound EXCEPT !.error = "raised"]
    ELSE NotFound

\* _find_by_llm_vision after the screenshot: the regex, json.loads and
\* result.get("found"); every exception gives {"found": False}
VisionResult(response) ==
    IF response = "found_full"
    THEN [NotFound EXCEPT !.found = TRUE, !.tier = 2, !.method = "llm",
                          !.selector = "suggested_selector",
                          !.coordinates = <<1, 1>>, !.confidence = 90]
    ELSE IF response = "found_bare"
    THEN [NotFound EXCEPT !.found = TRUE, !.tier = 2, !.method = "llm",
                          !.confidence = 50]
    ELSE NotFound

\* the words an OCR pass can read, their confidences and bounding boxes
\* (left, top, width, height)
OcrTexts == {<<"O", "K">>, <<"o", "k", ".">>, <<"G", "O">>, <<" ">>}
OcrConfidences == {-1, OcrConfidenceFloor, OcrConfidenceFloor + 1, 90}
OcrBoxes == {<<0, 0, 3, 5>>, <<10, 20, 4, 4>>}
OcrWords == [text : OcrTexts, conf : OcrConfidences, bbox : OcrBoxes]

\* sequences of at most n elements of S
SeqUpTo(S, n) == UNION {[1..k -> S] : k \in 0..n}

\* what image_to_data can return
OcrReadings == SeqUpTo(OcrWords, MaxOcrWords)

\* word.strip() is non-empty
NonBlank(word) == \E i \in 1..Len(word) : word[i] # " "

AtOrAboveFloor(conf) == conf >= OcrConfidenceFloor

\* if conf > 30
AboveFloor(conf) == conf > OcrConfidenceFloor

\* the positions of the words appended to `matches`
OcrMatches(target, words) ==
    {i \in 1..Len(words) :
        /\ NonBlank(words[i].text)
        /\ Contains(Lower(target), Lower(words[i].text))
        /\ AboveFloor(words[i].conf)}

\* max(matches, key=confidence): the first match of maximal confidence
BestMatch(target, words) ==
    LET M == OcrMatches(target, words) IN
    CHOOSE i \in M :
        /\ \A j \in M : words[j].conf <= words[i].conf
        /\ \A j \in M : words[j].conf = words[i].conf => i <= j

\* "center": [x + w // 2, y + h // 2]
Center(bbox) == <<bbox[1] + bbox[3] \div 2, bbox[2] + bbox[4] \div 2>>

\* _find_by_ocr; ok: the screenshot and the OCR pass raised nothing.
\* The confidence is kept in hundredths
FindByOcr(target, ok, words) ==
    IF ok /\ OcrMatches(target, words) # {}
    THEN LET best == words[BestMatch(target, words)] IN
         [NotFound EXCEPT !.found = TRUE, !.tier = 3, !.method = "ocr",
                          !.coordinates = Center(best.bbox),
                          !.confidence = best.conf]
    ELSE NotFound

\* the record of a SmartVision call that has just started
VisionCall(op, args) ==
    [op |-> op, args |-> args, status |-> "running", invoked |-> <<>>,
     result |-> NotFound, target |-> NoText, words |-> <<>>, url |-> "none"]

NoVisionCall ==
    [VisionCall("none", [css |-> FALSE, text |-> NoText, role |-> FALSE,
                         description |-> NoText, llm |-> FALSE])
        EXCEPT !.status = "returned"]

\* the call returns `result`
VisionReturns(c, result) ==
    /\ vision_call' = [c EXCEPT !.status = IF result.error = "raised"
                                           THEN "raised" ELSE "returned",
                                !.result = result]
    /\ vision_pc' = "idle"

\* find_element after tier 2: tier 3 when there is a text to search for
AfterVision(c) ==
    IF SearchText(c.args) # NoText
    THEN /\ vision_call' = c
         /\ vision_pc' = "ocr"
    ELSE VisionReturns(c, NotFoundByAnyTier)

\* find_element after tier 1: tier 2 when a model and a description are given
AfterSelector(c) ==
    IF VisionAvailable(c.args)
    THEN /\ vision_call' = c
         /\ vision_pc' = "vision"
    ELSE AfterVision(c)

Tier1ReturnsNever(result) == FALSE

\* if result["found"]: return result (after tier 1)
Tier1Returns(result) == result.found

\* _find_by_selector is over with `result`
SelectorDone(c, result) ==
    IF Tier1Returns(result) THEN VisionReturns(c, result) ELSE AfterSelector(c)

\* find_element up to its first await
FindElement(args) ==
    /\ vision_pc = "idle"
    /\ LET c == VisionCall("find_element", args) IN
       IF Strategies(args) = <<>>
       THEN SelectorDone(c, NotFound)
       ELSE /\ vision_call' = c
            /\ vision_pc' = "selector"
    /\ UNCHANGED <<config, classifier, executor, call, pool, concurrency, orchestration, agent,
                   element_cache, cache_url, page_url>>

\* the tier-1 strategies tried so far
Tried(c) == Len(SelectSeq(c.invoked, LAMBDA e : e.tier = 1))

SelectorOverIgnoringRaise(c, outcome) == Tried(c) = Len(Strategies(c.args))

\* _find_by_selector leaves its try block without a match: an exception was
\* raised (except Exception) or the last strategy has been tried
SelectorOver(c, outcome) ==
    outcome = "raises" \/ Tried(c) = Len(Strategies(c.args))

\* one strategy of _find_by_selector: a visible element is the match, an
\* exception ends tier 1, anything else moves on to the next strategy
SelectorStep(outcome) ==
    /\ vision_pc = "selector"
    /\ LET strategy == Strategies(vision_call.args)[Tried(vision_call) + 1]
           c == [vision_call EXCEPT
                    !.invoked = Append(@, [tier |-> 1, what |-> strategy,
                                           outcome |-> outcome])]
       IN  IF outcome = "visible"
           THEN SelectorDone(c, SelectorMatch(strategy))
           ELSE IF SelectorOver(c, outcome)
           THEN SelectorDone(c, NotFound)
           ELSE /\ vision_call' = c
                /\ UNCHANGED vision_pc
    /\ UNCHANGED <<config, classifier, executor, call, pool, concurrency, orchestration, agent,
                   element_cache, cache_url, page_url>>

\* _find_by_llm_vision: the screenshot, then the model's answer
VisionStep(shotOk, response) ==
    /\ vision_pc = "vision"
    /\ ~shotOk => response = "raises"
    /\ LET shot == [tier |-> 2, what |-> "screenshot",
                    outcome |-> IF shotOk THEN "ok" ELSE "raises"]
           asked == [tier |-> 2, what |-> "llm", outcome |-> response]
           c == [vision_call EXCEPT
                    !.invoked = IF shotOk THEN @ \o <<shot, asked>>
                                ELSE Append(@, shot)]
           result == IF shotOk THEN VisionResult(response) ELSE NotFound
       IN  IF result.found \/ result.error = "raised"
           THEN VisionReturns(c, result)
           ELSE AfterVision(c)
    /\ UNCHANGED <<config, classifier, executor, call, pool, concurrency, orchestration, agent,
                   element_cache, cache_url, page_url>>

\* the OCR passes find_element is run against: a failure (ImportError, a
\* raising screenshot or OCR pass) is ok = FALSE
SampleReadings ==
    {<<>>,
     <<[text |-> <<"O", "K">>, conf |-> 90, bbox |-> <<0, 0, 3, 5>>]>>,
     <<[text |-> <<"o", "k", ".">>, conf |-> OcrConfidenceFloor, bbox |-> <<0, 0, 3, 5>>],
       [text |-> <<"O", "k">>, conf |-> 90, bbox |-> <<10, 20, 4, 4>>]>>}

\* tier 3 of find_element: _find_by_ocr(page, search_text)
OcrStep(ok, words) ==
    /\ vision_pc = "ocr"
    /\ ~ok => words = <<>>
    /\ LET target == SearchText(vision_call.args)
           c == [vision_call EXCEPT
                    !.invoked = Append(@, [tier |-> 3, what |-> "ocr",
                                           outcome |-> IF ok THEN "ok"
                                                       ELSE "raises"]),
                    !.target = target,
                    !.words = words]
           result == FindByOcr(target, ok, words)
       IN  VisionReturns(c, IF result.found THEN result ELSE NotFoundByAnyTier)
    /\ UNCHANGED <<config, classifier, executor, call, pool, concurrency, orchestration, agent,
                   element_cache, cache_url, page_url>>

\* _find_by_ocr called with the arguments the call record holds
OcrReturns ==
    /\ vision_pc = "ocr_call"
    /\ VisionReturns(vision_call,
                     FindByOcr(vision_call.target, TRUE, vision_call.words))
    /\ UNCHANGED <<config, classifier, executor, call, pool, concurrency, orchestration, agent,
                   element_cache, cache_url, page_url>>

\* the URLs a page can be at
PageUrls == Urls \cup {EmptyUrl}

\* the page moves to another URL
PageNavigates(url) ==
    /\ vision_pc = "idle"
    /\ url # page_url
    /\ page_url' = url
    /\ UNCHANGED <<config, classifier, executor, call, pool, concurrency, orchestration, agent,
                   element_cache, cache_url, vision_pc, vision_call>>

InvalidateCacheKeepingUrl(current_url) ==
    /\ element_cache' = IF current_url # cache_url THEN {} ELSE element_cache
    /\ UNCHANGED cache_url

\* _invalidate_cache
InvalidateCache(current_url) ==
    IF current_url # cache_url
    THEN /\ element_cache' = {}
         /\ cache_url' = current_url
    ELSE UNCHANGED <<element_cache, cache_url>>

\* capture_page_state; ok: page.title() and the two page.evaluate() calls
\* return (PageState() with the default url "" comes back otherwise)
CapturePageState(ok) ==
    /\ vision_pc = "idle"
    /\ LET c == [VisionCall("capture_page_state", NoVisionCall.args)
                    EXCEPT !.status = "returned"] IN
       IF ok
       THEN /\ InvalidateCache(page_url)
            /\ vision_call' = [c EXCEPT !.url = page_url,
                                        !.invoked = <<[tier |-> 0, what |-> "page",
                                                       outcome |-> "ok"]>>]
       ELSE /\ vision_call' = [c EXCEPT !.url = EmptyUrl,
                                        !.invoked = <<[tier |-> 0, what |-> "page",
                                                       outcome |-> "raises"]>>]
            /\ UNCHANGED <<element_cache, cache_url>>
    /\ UNCHANGED <<config, classifier, executor, call, pool, concurrency, orchestration, agent, page_url,
                   vision_pc>>

VisionInit ==
    /\ element_cache = {}
    /\ cache_url = NoUrl
    /\ page_url = EmptyUrl
    /\ vision_pc = "idle"
    /\ vision_call = NoVisionCall

VisionNext ==
    \/ \E args \in FindArgs : FindElement(args)
    \/ \E outcome \in SelectorOutcomes : SelectorStep(outcome)
    \/ \E shotOk \in BOOLEAN, response \in VisionResponses :
            VisionStep(shotOk, response)
    \/ \E ok \in BOOLEAN, words \in SampleReadings : OcrStep(ok, words)
    \/ \E url \in PageUrls : PageNavigates(url)
    \/ \E ok \in BOOLEAN : CapturePageState(ok)

\* ------------------------------------------------------------ AgentOrchestrator

\* the names initialize_agents creates agents under
AgentNames == {"planner", "researcher", "executor", "coder", "browser",
               "file_manager", "reviewer"}

\* AGENT_TYPE_MAP
AgentTypeMap ==
    [t \in {"browser", "research", "analysis", "coding", "code", "file", "review",
            "verification", "planning", "execution"} |->
        CASE t = "browser" -> "browser"
          [] t \in {"research", "analysis"} -> "researcher"
          [] t \in {"coding", "code"} -> "coder"
          [] t = "file" -> "file_manager"
          [] t \in {"review", "verification"} -> "reviewer"
          [] t = "planning" -> "planner"
          [] t = "execution" -> "executor"]

\* select_agent: AGENT_TYPE_MAP.get(task_type, "executor")
SelectAgent(task_type) ==
    IF task_type \in DOMAIN AgentTypeMap THEN AgentTypeMap[task_type]
    ELSE "executor"

\* the sub-tasks a decomposition can hold: ids repeat, dependencies name any
\* id, the type may be one the map does not know
TaskIds == 1..MaxSubTasks

SubTasks == [id : TaskIds, type : {"coding", "unknown"}, depends_on : SUBSET TaskIds]

NoSubTask == [id |-> 0, type |-> "none", depends_on |-> {}]

\* what awaiting the progress callback and agent.execute can do for one
\* sub-task: the agent's handler reports success, reports failure or raises
\* (execute turns that into success False), or the callback raises before the
\* execution or when reporting the failure
ExecutionOutcomes ==
    {"success", "failure", "raises", "progress_raises", "report_raises"}

DependenciesMetAlways(task) == TRUE

\* all(dep in completed for dep in depends_on)
DependenciesMet(task) == \A dep \in task.depends_on : dep \in completed

\* one entry of `results`, with what the loop did for the sub-task
Result(task, kind, success) ==
    [task_id |-> task.id, kind |-> kind, success |-> success]

\* initialize_agents
InitializeAgents ==
    /\ orch_pc # "loop"
    /\ agents # AgentNames
    /\ agents' = AgentNames
    /\ UNCHANGED <<config, classifier, executor, call, pool, concurrency, vision,
                   agent, on_progress, sub_task, completed, results, orch_pc>>

\* orchestrator.on_progress = callback (or None)
SetOnProgress(callback) ==
    /\ orch_pc # "loop"
    /\ callback # on_progress
    /\ on_progress' = callback
    /\ UNCHANGED <<config, classifier, executor, call, pool, concurrency, vision,
                   agent, agents, sub_task, completed, results, orch_pc>>

\* execute_plan(decomposition) up to the loop over the sub-tasks
ExecutePlan ==
    /\ orch_pc # "loop"
    /\ completed' = {}
    /\ results' = <<>>
    /\ sub_task' = NoSubTask
    /\ orch_pc' = "loop"
    /\ UNCHANGED <<config, classifier, executor, call, pool, concurrency, vision,
                   agent, agents, on_progress>>

\* one iteration of the loop of execute_plan, on the next sub-task of the
\* list: skipped when a dependency is not in `completed` or no agent has the
\* selected name, executed otherwise; a failed execution leaves the loop and
\* execute_plan returns, a raising callback ends execute_plan
Iteration(task, outcome) ==
    /\ orch_pc = "loop"
    /\ Len(results) < MaxSubTasks
    /\ outcome \in {"progress_raises", "report_raises"} => on_progress
    /\ sub_task' = task
    /\ IF ~DependenciesMet(task)
       THEN /\ outcome = "success"
            /\ results' = Append(results, Result(task, "unmet", FALSE))
            /\ UNCHANGED <<completed, orch_pc>>
       ELSE IF SelectAgent(task.type) \notin agents
       THEN /\ outcome = "success"
            /\ results' = Append(results, Result(task, "no_agent", FALSE))
            /\ UNCHANGED <<completed, orch_pc>>
       ELSE IF outcome = "progress_raises"
       THEN /\ orch_pc' = "raised"
            /\ UNCHANGED <<completed, results>>
       ELSE IF outcome = "success"
       THEN /\ results' = Append(results, Result(task, "executed", TRUE))
            /\ completed' = completed \cup {task.id}
            /\ UNCHANGED orch_pc
       ELSE /\ results' = Append(results, Result(task, "executed", FALSE))
            /\ orch_pc' = IF outcome = "report_raises" THEN "raised"
                          ELSE "returned"
            /\ UNCHANGED completed
    /\ UNCHANGED <<config, classifier, executor, call, pool, concurrency, vision,
                   agent, agents, on_progress>>

\* execute_plan: the list is exhausted, the summary is returned
EndOfPlan ==
    /\ orch_pc = "loop"
    /\ orch_pc' = "returned"
    /\ UNCHANGED <<config, classifier, executor, call, pool, concurrency, vision,
                   agent, agents, on_progress, sub_task, completed, results>>

OrchestrationInit ==
    /\ agents = {}
    /\ on_progress = FALSE
    /\ sub_task = NoSubTask
    /\ completed = {}
    /\ results = <<>>
    /\ orch_pc = "idle"

OrchestratorNext ==
    \/ InitializeAgents
    \/ \E callback \in BOOLEAN : SetOnProgress(callback)
    \/ ExecutePlan
    \/ \E task \in SubTasks, outcome \in ExecutionOutcomes : Iteration(task, outcome)
    \/ EndOfPlan

\* --------------------------------------------------------------- EnhancedAgent

\* a plan: where it came from and how many steps it has; None is NoPlan
Plan(origin, n) == [origin |-> origin, steps |-> n]

NoPlan == Plan("none", 0)

\* the fallback plan of create_plan: one step, the goal itself
FallbackPlan == Plan("fallback", 1)

\* what the language model does when asked for a plan: answers with a JSON
\* object, without one, with a malformed one, or raises
LlmReplies == {"plan", "no_json", "bad_json", "raises"}

\* the arguments of set_components that are not None
ComponentSets == [browser : BOOLEAN, vision : BOOLEAN, llm : BOOLEAN]

NoComponents == [browser |-> FALSE, vision |-> FALSE, llm |-> FALSE]

\* the record of an EnhancedAgent call that has just started; invoked lists
\* the page operations and model calls it has made
AgentCall(op, caller) ==
    [op |-> op, caller |-> caller, status |-> "running", result |-> NoPlan,
     invoked |-> <<>>, count_before |-> replan_count]

NoAgentCall ==
    [op |-> "none", caller |-> "user", status |-> "returned", result |-> NoPlan,
     invoked |-> <<>>, count_before |-> 0]

\* the frame of execute_task: its plan, the step being executed, how many
\* steps of that plan execute_step was called on, the results so far and
\* what it returned
NoTask ==
    [running |-> FALSE, plan |-> NoPlan, i |-> 0, executed |-> 0,
     results |-> <<>>, returned |-> "none", success |-> FALSE]

\* return of the summary: success iff every result is a success
TaskSummary(t) ==
    [t EXCEPT !.running = FALSE, !.returned = "summary",
              !.success = \A k \in 1..Len(t.results) : t.results[k]]

\* return of "Task failed after max re-planning attempts"
TaskEscalated(t) ==
    [t EXCEPT !.running = FALSE, !.returned = "escalated", !.success = FALSE]

\* capture_page_state called by the agent on the page of its browser
CapturedByAgent(ok) ==
    /\ IF ok THEN InvalidateCache(page_url)
             ELSE UNCHANGED <<element_cache, cache_url>>
    /\ UNCHANGED <<page_url, vision_pc, vision_call>>

\* replan returns `result`; inside execute_task None escalates and a new
\* plan replaces the plan and leaves the loop
ReplanReturns(c, result, t) ==
    /\ agent_call' = [c EXCEPT !.status = "returned", !.result = result]
    /\ agent_pc' = "idle"
    /\ agent_task' = IF c.caller = "task"
                     THEN IF result = NoPlan
                          THEN TaskEscalated(t)
                          ELSE TaskSummary([t EXCEPT !.plan = result,
                                                     !.executed = 0])
                     ELSE t

ReplanLimitReachedLate(count) == count > MaxReplans

\* if self._replan_count >= self._max_replans
ReplanLimitReached(count) == count >= MaxReplans

\* replan up to its first await
ReplanEnter(caller, t) ==
    LET c == AgentCall("replan", caller) IN
    IF ReplanLimitReached(replan_count)
    THEN /\ ReplanReturns(c, NoPlan, t)
         /\ UNCHANGED <<replan_count, current_plan>>
    ELSE /\ replan_count' = replan_count + 1
         /\ agent_call' = c
         /\ agent_pc' = IF components.vision /\ components.browser
                        THEN "replan_page" ELSE "replan_llm"
         /\ agent_task' = t
         /\ UNCHANGED current_plan

\* replan(failed_step, error) called from outside execute_task
Replan ==
    /\ agent_pc = "idle"
    /\ ReplanEnter("user", agent_task)
    /\ UNCHANGED <<config, classifier, executor, call, pool, concurrency, orchestration, vision,
                   components>>

\* replan: page = self._reliable_browser.page; capture_page_state(page) if
\* there is one (get_screenshot returns "" at once if there is none)
ReplanCapture(page, ok) ==
    /\ agent_pc = "replan_page"
    /\ ~page => ok
    /\ IF page
       THEN /\ CapturedByAgent(ok)
            /\ agent_call' = [agent_call EXCEPT !.invoked = Append(@, "capture")]
            /\ agent_pc' = "replan_shot"
       ELSE /\ UNCHANGED <<vision, agent_call>>
            /\ agent_pc' = "replan_llm"
    /\ UNCHANGED <<config, classifier, executor, call, pool, concurrency, orchestration,
                   components, replan_count, current_plan, agent_task>>

\* replan: get_screenshot(), which returns "" if the page is gone or the
\* screenshot raises
ReplanScreenshot(page) ==
    /\ agent_pc = "replan_shot"
    /\ agent_call' = IF page
                     THEN [agent_call EXCEPT !.invoked = Append(@, "screenshot")]
                     ELSE agent_call
    /\ agent_pc' = "replan_llm"
    /\ UNCHANGED <<config, classifier, executor, call, pool, concurrency, orchestration, vision,
                   components, replan_count, current_plan, agent_task>>

\* replan: self._llm.ainvoke(prompt) and the parsing of its answer; with no
\* model set the attribute access raises
ReplanLlm(reply, n) ==
    /\ agent_pc = "replan_llm"
    /\ ~components.llm => reply = "raises"
    /\ reply # "plan" => n = 0
    /\ LET c == IF components.llm
                THEN [agent_call EXCEPT !.invoked = Append(@, "llm")]
                ELSE agent_call
           result == IF reply = "plan" THEN Plan("replan", n) ELSE NoPlan
       IN  /\ ReplanReturns(c, result, agent_task)
           /\ current_plan' = IF reply = "plan" THEN result ELSE current_plan
    /\ UNCHANGED <<config, classifier, executor, call, pool, concurrency, orchestration, vision,
                   components, replan_count>>

\* create_plan returns `result`; inside execute_task the loop over its steps
\* starts, and ends at once if there is none
CreatePlanReturns(c, result, t) ==
    /\ agent_call' = [c EXCEPT !.status = "returned", !.result = result]
    /\ IF c.caller = "task"
       THEN IF result.steps = 0
            THEN /\ agent_task' = TaskSummary([t EXCEPT !.plan = result])
                 /\ agent_pc' = "idle"
            ELSE /\ agent_task' = [t EXCEPT !.plan = result, !.i = 1]
                 /\ agent_pc' = "task_step"
       ELSE /\ agent_task' = t
            /\ agent_pc' = "idle"

\* create_plan(goal, context, page_state) called from outside execute_task
CreatePlan ==
    /\ agent_pc = "idle"
    /\ agent_call' = AgentCall("create_plan", "user")
    /\ agent_pc' = "plan_llm"
    /\ UNCHANGED <<config, classifier, executor, call, pool, concurrency, orchestration, vision,
                   components, replan_count, current_plan, agent_task>>

\* create_plan: self._llm.ainvoke(prompt) and the parsing of its answer
PlanLlm(reply, n) ==
    /\ agent_pc = "plan_llm"
    /\ ~components.llm => reply = "raises"
    /\ reply # "plan" => n = 0
    /\ LET c == IF components.llm
                THEN [agent_call EXCEPT !.invoked = Append(@, "llm")]
                ELSE agent_call
       IN  IF reply = "plan"
           THEN /\ current_plan' = Plan("create", n)
                /\ replan_count' = 0
                /\ CreatePlanReturns(c, Plan("create", n), agent_task)
           ELSE /\ CreatePlanReturns(c, FallbackPlan, agent_task)
                /\ UNCHANGED <<current_plan, replan_count>>
    /\ UNCHANGED <<config, classifier, executor, call, pool, concurrency, orchestration, vision,
                   components>>

\* execute_task(goal, context) up to its first await
ExecuteTask(page) ==
    /\ agent_pc = "idle"
    /\ replan_count' = 0
    /\ agent_task' = [NoTask EXCEPT !.running = TRUE]
    /\ IF components.vision /\ components.browser /\ page
       THEN /\ agent_call' = [AgentCall("execute_task", "user")
                                 EXCEPT !.count_before = 0]
            /\ agent_pc' = "task_capture"
       ELSE /\ agent_call' = [AgentCall("create_plan", "task")
                                 EXCEPT !.count_before = 0]
            /\ agent_pc' = "plan_llm"
    /\ UNCHANGED <<config, classifier, executor, call, pool, concurrency, orchestration, vision,
                   components, current_plan>>

\* execute_task: the initial capture_page_state, then create_plan
TaskCapture(ok) ==
    /\ agent_pc = "task_capture"
    /\ CapturedByAgent(ok)
    /\ agent_call' = AgentCall("create_plan", "task")
    /\ agent_pc' = "plan_llm"
    /\ UNCHANGED <<config, classifier, executor, call, pool, concurrency, orchestration,
                   components, replan_count, current_plan, agent_task>>

\* execute_task: one execute_step of the loop, which reports success when
\* no browser is set; a failed step calls replan
TaskStep(success) ==
    /\ agent_pc = "task_step"
    /\ ~components.browser => success
    /\ LET t == [agent_task EXCEPT !.results = Append(@, success),
                                   !.executed = @ + 1] IN
       IF success
       THEN /\ IF t.i < t.plan.steps
               THEN /\ agent_task' = [t EXCEPT !.i = @ + 1]
                    /\ UNCHANGED agent_pc
               ELSE /\ agent_task' = TaskSummary(t)
                    /\ agent_pc' = "idle"
            /\ UNCHANGED <<agent_call, replan_count, current_plan>>
       ELSE ReplanEnter("task", t)
    /\ UNCHANGED <<config, classifier, executor, call, pool, concurrency, orchestration, vision,
                   components>>

\* set_components(reliable_browser, smart_vision, llm)
SetComponents(c) ==
    /\ agent_pc = "idle"
    /\ c # components
    /\ components' = c
    /\ UNCHANGED <<config, classifier, executor, call, pool, concurrency, orchestration, vision,
                   replan_count, current_plan, agent_pc, agent_call, agent_task>>

AgentInit ==
    /\ components = NoComponents
    /\ replan_count = 0
    /\ current_plan = NoPlan
    /\ agent_pc = "idle"
    /\ agent_call = NoAgentCall
    /\ agent_task = NoTask

\* the other components as constructed
OthersInit == ConcurrencyInit /\ VisionInit /\ AgentInit /\ OrchestrationInit

AgentNext ==
    \/ \E c \in ComponentSets : SetComponents(c)
    \/ CreatePlan
    \/ \E reply \in LlmReplies, n \in 0..MaxPlanSteps : PlanLlm(reply, n)
    \/ Replan
    \/ \E page \in BOOLEAN, ok \in BOOLEAN : ReplanCapture(page, ok)
    \/ \E page \in BOOLEAN : ReplanScreenshot(page)
    \/ \E reply \in LlmReplies, n \in 0..MaxPlanSteps : ReplanLlm(reply, n)
    \/ \E page \in BOOLEAN : ExecuteTask(page)
    \/ \E ok \in BOOLEAN : TaskCapture(ok)
    \/ \E success \in BOOLEAN : TaskStep(success)
    \/ \E url \in PageUrls : PageNavigates(url)

Next ==
    \/ \E url \in Urls : Navigate(url)
    \/ Click
    \/ TypeText
    \/ AttemptOk
    \/ AttemptTimeout
    \/ \E o \in {"retryable", "fatal"} : AttemptError(o)
    \/ Sleep
    \/ \E ok \in BOOLEAN : Title(ok)
    \/ \E c \in ContextValues : SetContext(c)
    \/ \E o \in Outcomes : ExtractContent(o)
    \/ \E o \in Outcomes : GetScreenshot(o)
    \/ GetCheckpoint
    \/ \E cp \in Checkpoints : RestoreFromCheckpoint(cp)

ExecutorInit ==
    /\ max_retries \in 0..MaxRetriesBound
    /\ circuit_breaker_threshold \in 0..MaxThresholdBound
    /\ context = "none"
    /\ consecutive_failures = 0
    /\ last_url = NoUrl
    /\ pc = "idle"
    /\ cycle = 0
    /\ attempt = 0
    /\ call = NoCall

PoolInit ==
    /\ browser = FALSE
    /\ contexts = <<>>
    /\ active_context_index = -1
    /\ created = 0
    /\ closed = {}
    /\ last_activity = 0
    /\ now = 1

Init ==
    /\ ExecutorInit
    /\ PoolInit
    /\ ClassifierInit
    /\ OthersInit
    /\ max_contexts = DefaultMaxContexts
    /\ idle_timeout = DefaultIdleTimeout

\* the executor alone
Spec == Init /\ [][Next]_vars

\* click / type_text whose wait_for_selector succeeds at once
WaitSucceeds ==
    /\ cycle = 1
    /\ AttemptOk

\* click / type_text whose page.click / page.fill fails on every attempt
ActionFails(outcome) ==
    /\ cycle = 2
    /\ IF outcome = "timeout" THEN AttemptTimeout ELSE AttemptError(outcome)

\* an executor with max_retries below the threshold
FlakyInit ==
    /\ Init
    /\ max_retries < circuit_breaker_threshold

\* nothing but click and type_text calls on a page whose elements appear
\* and whose actions fail
FlakyNext ==
    \/ \E c \in ContextValues : SetContext(c)
    \/ Click
    \/ TypeText
    \/ WaitSucceeds
    \/ \E o \in Outcomes \ {"ok"} : ActionFails(o)
    \/ Sleep

SpecFlaky == FlakyInit /\ [][FlakyNext]_vars

\* the recovery path is run with the smallest and the largest retry budget
\* and threshold that attempt anything
RecoveryInit ==
    /\ ExecutorInit
    /\ max_retries \in {1, MaxRetriesBound}
    /\ circuit_breaker_threshold \in {1, MaxThresholdBound}
    /\ PoolInit
    /\ ClassifierInit
    /\ OthersInit
    /\ max_contexts \in 1..MaxContextsBound
    /\ idle_timeout = DefaultIdleTimeout

\* the recovery path: one executor driven through navigate, beside the
\* SessionManager whose restart() a supervisor calls
RecoveryNext ==
    \/ \E url \in Urls : Navigate(url)
    \/ AttemptOk
    \/ AttemptTimeout
    \/ \E o \in {"retryable", "fatal"} : AttemptError(o)
    \/ Sleep
    \/ \E ok \in BOOLEAN : Title(ok)
    \/ \E c \in ContextValues : SetContext(c)
    \/ \E cp \in Checkpoints : RestoreFromCheckpoint(cp)
    \/ PoolNext

SpecRecovery == RecoveryInit /\ [][RecoveryNext]_vars

\* the pool alone, under a sequential caller and a clock: the executor as
\* constructed, max_contexts from nothing up to the default
SessionInit ==
    /\ ExecutorInit
    /\ max_retries = MaxRetriesBound
    /\ circuit_breaker_threshold = MaxThresholdBound
    /\ ClassifierInit
    /\ OthersInit
    /\ PoolInit
    /\ max_contexts \in (0..MaxContextsBound) \cup {DefaultMaxContexts}
    /\ idle_timeout \in 0..MaxIdleTimeout

SessionNext ==
    \/ PoolNext
    \/ \E pageOk \in BOOLEAN, evalOk \in BOOLEAN : IsHealthy(pageOk, evalOk)
    \/ CleanupIfIdle
    \/ Tick

SpecSession == SessionInit /\ [][SessionNext]_vars

\* the same caller on a browser whose new_context() never raises
CreatingNext ==
    \/ GetContext(TRUE)
    \/ \E closeRaises \in BOOLEAN : NewContext(TRUE, closeRaises)
    \/ \E u \in SUBSET {contexts[i] : i \in 1..Len(contexts)} : Restart(u)
    \/ \E raises \in BOOLEAN : Close(raises)
    \/ \E pageOk \in BOOLEAN, evalOk \in BOOLEAN : IsHealthy(pageOk, evalOk)
    \/ CleanupIfIdle
    \/ Tick

SpecCreating == SessionInit /\ [][CreatingNext]_vars

\* the pool under two concurrent callers
ConcurrentInit ==
    /\ ExecutorInit
    /\ max_retries = MaxRetriesBound
    /\ circuit_breaker_threshold = MaxThresholdBound
    /\ ClassifierInit
    /\ OthersInit
    /\ PoolInit
    /\ max_contexts \in 1..MaxContextsBound
    /\ idle_timeout = DefaultIdleTimeout

SpecConcurrent == ConcurrentInit /\ [][ConcurrentNext]_vars

\* SmartVision alone: find_element and capture_page_state on a page that
\* changes its URL
VisionSpecInit ==
    /\ ExecutorInit
    /\ max_retries = MaxRetriesBound
    /\ circuit_breaker_threshold = MaxThresholdBound
    /\ ClassifierInit
    /\ PoolInit
    /\ max_contexts = DefaultMaxContexts
    /\ idle_timeout = DefaultIdleTimeout
    /\ OthersInit

SpecVision == VisionSpecInit /\ [][VisionNext]_vars

\* the orchestrator alone: every other component stays as constructed
SpecOrchestrator == VisionSpecInit /\ [][OrchestratorNext]_vars

\* the agent alone: every other component stays as constructed
SpecAgent == VisionSpecInit /\ [][AgentNext]_vars

\* _find_by_ocr alone: the target and the OCR reading are the arguments of
\* a pending call
OcrInit ==
    /\ ExecutorInit
    /\ max_retries = MaxRetriesBound
    /\ circuit_breaker_threshold = MaxThresholdBound
    /\ ClassifierInit
    /\ PoolInit
    /\ max_contexts = DefaultMaxContexts
    /\ idle_timeout = DefaultIdleTimeout
    /\ ConcurrencyInit
    /\ AgentInit
    /\ OrchestrationInit
    /\ element_cache = {}
    /\ cache_url = NoUrl
    /\ page_url = EmptyUrl
    /\ vision_pc = "ocr_call"
    /\ \E target \in {SearchText(a) : a \in FindArgs} \ {NoText},
          words \in OcrReadings :
            vision_call = [VisionCall("_find_by_ocr", NoVisionCall.args)
                              EXCEPT !.target = target, !.words = words]

SpecOcr == OcrInit /\ [][OcrReturns]_vars

\* error classification alone: executor and pool as constructed, an error
\* message and an allow-list drawn from the bounded sets
ClassifyInit ==
    /\ ExecutorInit
    /\ max_retries = MaxRetriesBound
    /\ circuit_breaker_threshold = MaxThresholdBound
    /\ PoolInit
    /\ OthersInit
    /\ max_contexts = DefaultMaxContexts
    /\ idle_timeout = DefaultIdleTimeout
    /\ retryable_errors \in DOMAIN RetryableErrorLists
    /\ error_message \in ErrorMessages
    /\ verdict = <<>>

ClassifyNext ==
    \/ Classify
    \/ \E m \in ErrorMessages : RaiseError(m)

SpecClassify == ClassifyInit /\ [][ClassifyNext]_vars

\* ------------------------------------------------------------------ claims

NoAttempts == <<<<>>, <<>>>>

RaisedBreakerOpen(c) == c.status = "raised" /\ c.error = "CircuitBreakerOpen"

NotInitialized(c) == c.status = "failure" /\ c.error = "Browser not initialized"

Last(seq) == seq[Len(seq)]

AllTimeouts(seq) == \A i \in 1..Len(seq) : seq[i] = "timeout"

\* the _retry call of the wrapper in which the call failed: the second when it
\* made an attempt, the first otherwise
FailingCycle(c) == IF c.outcomes[2] # <<>> THEN 2 ELSE 1

\* C1, as claimed: once the counter has reached the threshold, the next
\* navigate, click or type_text raises CircuitBreakerOpen, invokes no page
\* operation and leaves the counter unchanged.
C1_AsClaimed ==
    (/\ call.op \in GuardedOps
     /\ circuit_breaker_threshold >= 1
     /\ call.start_failures >= circuit_breaker_threshold)
    => /\ RaisedBreakerOpen(call)
       /\ call.outcomes = NoAttempts
       /\ consecutive_failures = call.start_failures

\* C1, amended: once the counter has reached the threshold, the next navigate,
\* click or type_text invokes no page operation and leaves the counter
\* unchanged; it raises CircuitBreakerOpen when the executor has a page and
\* returns the "Browser not initialized" failure when it has none.
C1_BreakerRefusesCall ==
    (call.op \in GuardedOps /\ call.start_failures >= circuit_breaker_threshold)
    => /\ call.outcomes = NoAttempts
       /\ consecutive_failures = call.start_failures
       /\ call.had_page => RaisedBreakerOpen(call)
       /\ ~call.had_page => NotInitialized(call)

C1_Witness ==
    /\ call.op \in GuardedOps
    /\ ~call.restoring
    /\ circuit_breaker_threshold >= 1
    /\ call.start_failures >= circuit_breaker_threshold
    /\ call.had_page
    /\ RaisedBreakerOpen(call)

\* the first _retry call of the wrapper was entered with the breaker closed
FirstCycleEntered ==
    /\ call.op \in GuardedOps
    /\ call.had_page
    /\ ~CheckCircuitBreaker(call.start_failures)

\* the k-th _retry call of the wrapper has ended
CycleOver(k) == call.status # "running" \/ (k = 1 /\ cycle = 2)

\* C2: with max_retries = N >= 1 and the breaker closed at the start, an
\* operation that times out on every attempt is invoked exactly N times by one
\* _retry call (never more while it runs, N when it ends), and the call then
\* fails with a timeout error.
C2_TimeoutsAttemptedExactlyN ==
    (/\ max_retries >= 1
     /\ FirstCycleEntered
     /\ AllTimeouts(call.outcomes[1]))
    => /\ Len(call.outcomes[1]) <= max_retries
       /\ CycleOver(1) => /\ Len(call.outcomes[1]) = max_retries
                          /\ call.status = "failure"
                          /\ call.error = "timeout"
                          /\ call.outcomes[2] = <<>>

C2_Witness ==
    /\ call.op = "navigate"
    /\ max_retries >= 2
    /\ call.status = "failure"
    /\ call.error = "timeout"
    /\ AllTimeouts(call.outcomes[1])
    /\ Len(call.outcomes[1]) = max_retries

\* the step is an attempt of the running _retry call that ends with `outcome`
AttemptEnds(outcome) ==
    /\ pc = "attempt"
    /\ call'.outcomes[cycle] = Append(call.outcomes[cycle], outcome)

\* C3: a successful attempt sets the counter to 0 whatever it was, and ends
\* its _retry call at once: the attempt is the last one of that call.
C3_SuccessResetsAndReturns ==
    /\ [][AttemptEnds("ok")
            => /\ consecutive_failures' = 0
               /\ ~(pc' \in {"attempt", "sleep"} /\ cycle' = cycle)]_vars
    /\ [](\A k \in {1, 2} : \A i \in 1..Len(call.outcomes[k]) :
            call.op \in GuardedOps /\ call.outcomes[k][i] = "ok"
            => i = Len(call.outcomes[k]))

C3_Witness ==
    /\ call.op = "navigate"
    /\ pc = "title"
    /\ Len(call.outcomes[1]) >= 2
    /\ Last(call.outcomes[1]) = "ok"
    /\ call.start_failures >= 1
    /\ consecutive_failures = 0

\* C4: an error that matches no entry of the allow-list ends the call with
\* that attempt: the counter goes up by exactly one, no sleep follows, the
\* operation is not invoked again and the wrapper reports success=False; when
\* it is the first attempt, the call made exactly one attempt.
C4_FatalErrorEndsCall ==
    /\ [][AttemptEnds("fatal")
            => /\ consecutive_failures' = consecutive_failures + 1
               /\ pc' = "idle"
               /\ call'.sleeps = call.sleeps
               /\ call'.status = "failure"
               /\ call'.error = "fatal"]_vars
    /\ [](\A k \in {1, 2} : \A i \in 1..Len(call.outcomes[k]) :
            call.op \in GuardedOps /\ call.outcomes[k][i] = "fatal"
            => /\ i = Len(call.outcomes[k])
               /\ k = FailingCycle(call)
               /\ call.status = "failure")
    /\ [](call.op \in GuardedOps /\ call.outcomes[1] = <<"fatal">>
            => /\ consecutive_failures = call.start_failures + 1
               /\ call.sleeps = <<>>
               /\ call.outcomes[2] = <<>>)

C4_Witness ==
    /\ call.op = "navigate"
    /\ max_retries >= 2
    /\ call.outcomes = <<<<"fatal">>, <<>>>>
    /\ call.status = "failure"
    /\ consecutive_failures = call.start_failures + 1

\* C5: the breaker is checked once per _retry call: between two attempts the
\* call only sleeps, so a call whose failed attempts take the counter to the
\* threshold or past it still makes all max_retries attempts, and the next call
\* on that executor is the one refused.
C5_BreakerCheckedOncePerCall ==
    /\ [][pc = "sleep"
            => /\ pc' = "attempt"
               /\ attempt' = attempt + 1
               /\ consecutive_failures' = consecutive_failures]_vars
    /\ [](call.op \in GuardedOps /\ call.status = "failure"
            /\ call.error \in {"timeout", "retryable"}
            => Len(call.outcomes[FailingCycle(call)]) = max_retries)
    /\ [][(/\ pc = "idle"
           /\ call.op \in GuardedOps
           /\ consecutive_failures >= circuit_breaker_threshold
           /\ Page
           /\ call'.op \in GuardedOps
           /\ ~call'.restoring)
            => RaisedBreakerOpen(call')]_vars

C5_Witness ==
    /\ call.op = "navigate"
    /\ call.status = "failure"
    /\ call.error \in {"timeout", "retryable"}
    /\ max_retries >= 2
    /\ call.start_failures < circuit_breaker_threshold
    /\ call.start_failures + 1 >= circuit_breaker_threshold
    /\ Len(call.outcomes[1]) = max_retries
    /\ consecutive_failures > circuit_breaker_threshold

\* C6, as claimed: a call that fails after exhausting its retries, or on a
\* fatal error, leaves the counter exactly one higher than at its start.
C6_AsClaimed ==
    (/\ call.op \in GuardedOps
     /\ call.status = "failure"
     /\ call.error \in {"timeout", "retryable", "fatal"}
     /\ FailingCycle(call) = 1)
    => consecutive_failures = call.start_failures + 1

\* C6, amended: each failed attempt increments the counter by one: a _retry
\* call that fails leaves the counter higher than at its start by the number
\* of attempts it made, which is max_retries after exhausting the retries and
\* k when a fatal error ends it at the k-th attempt.
C6_FailureCountsAttempts ==
    /\ pc \in {"attempt", "sleep"}
       => consecutive_failures
            = call.cycle_failures + Len(call.outcomes[cycle])
    /\ (/\ call.op \in GuardedOps
        /\ call.status = "failure"
        /\ call.error \in {"timeout", "retryable", "fatal"})
       => /\ consecutive_failures
               = call.cycle_failures + Len(call.outcomes[FailingCycle(call)])
          /\ call.error \in {"timeout", "retryable"}
               => Len(call.outcomes[FailingCycle(call)]) = max_retries

C6_Witness ==
    /\ call.op = "navigate"
    /\ ~call.restoring
    /\ call.status = "failure"
    /\ call.error = "timeout"
    /\ max_retries >= 2
    /\ call.start_failures >= 1
    /\ consecutive_failures = call.start_failures + max_retries

\* the calls C7 ranges over
C7Ops == GuardedOps \cup {"extract_content", "get_screenshot", "get_checkpoint"}

\* C7, as claimed: once the breaker is open, over navigate, click, type_text,
\* extract_content, get_screenshot and get_checkpoint calls the counter stays
\* at or above the threshold and every navigate / click / type_text raises
\* CircuitBreakerOpen, until restore_from_checkpoint is called.
C7_AsClaimed ==
    [][(/\ pc = "idle"
        /\ circuit_breaker_threshold >= 1
        /\ consecutive_failures >= circuit_breaker_threshold
        /\ call'.op \in C7Ops
        /\ ~call'.restoring)
        => /\ consecutive_failures' >= circuit_breaker_threshold
           /\ call'.op \in GuardedOps => RaisedBreakerOpen(call')]_vars

\* C7, amended: once the breaker is open when a call starts, every call other
\* than restore_from_checkpoint returns at once with the counter unchanged, so
\* the breaker stays open; every navigate / click / type_text on an executor
\* with a page raises CircuitBreakerOpen, and without a page returns the
\* "Browser not initialized" failure.
C7_NoAutomaticRecovery ==
    [][(/\ pc = "idle"
        /\ consecutive_failures >= circuit_breaker_threshold
        /\ ~call'.restoring)
        => /\ consecutive_failures' = consecutive_failures
           /\ pc' = "idle"
           /\ (call'.op \in GuardedOps /\ Page) => RaisedBreakerOpen(call')
           /\ (call'.op \in GuardedOps /\ ~Page) => NotInitialized(call')]_vars

C7_Witness ==
    /\ call.op = "extract_content"
    /\ call.status = "success"
    /\ circuit_breaker_threshold >= 1
    /\ consecutive_failures >= circuit_breaker_threshold

\* the number of failed attempts of a call that has made a single _retry call
FailedAttempts(c) ==
    IF c.outcomes[1] # <<>> /\ Last(c.outcomes[1]) = "ok"
    THEN 0
    ELSE Len(c.outcomes[1])

\* C8, as claimed: when restore_from_checkpoint returns, the counter is 0.
C8_AsClaimed ==
    (call.restoring /\ call.status # "running" /\ circuit_breaker_threshold >= 1)
    => consecutive_failures = 0

\* C8, amended: restore_from_checkpoint resets the counter to 0 before anything
\* else, whatever its value before and whatever the checkpoint contains; from
\* then on the counter is the number of failed attempts of the re-navigation,
\* so when the call returns it is 0 if nothing was re-navigated or the
\* re-navigation succeeded, and at most max_retries otherwise.
C8_RestoreResetsFirst ==
    call.restoring
    => /\ call.start_failures = 0
       /\ consecutive_failures = FailedAttempts(call)
       /\ consecutive_failures <= max_retries
       /\ call.op = "restore_from_checkpoint" => consecutive_failures = 0

C8_Witness ==
    /\ call.restoring
    /\ call.op = "navigate"
    /\ call.status = "success"
    /\ circuit_breaker_threshold >= 1
    /\ call.failures_before >= circuit_breaker_threshold
    /\ consecutive_failures = 0

\* C9, as claimed: after SessionManager.restart() returns (here: on a pool
\* that held a context), the executor's counter is 0.
C9_AsClaimed ==
    (call.op = "restart" /\ call.returned # <<>>) => consecutive_failures = 0

\* C9, amended: SessionManager.restart() does not touch the executor: the
\* counter after it is the counter before it, and an executor with a page that
\* was refusing calls still raises CircuitBreakerOpen on the next navigate.
C9_RestartKeepsBreaker ==
    /\ [][call'.op = "restart" => UNCHANGED executor]_vars
    /\ [][(/\ call.op = "restart"
           /\ consecutive_failures >= circuit_breaker_threshold
           /\ Page
           /\ call'.op = "navigate"
           /\ ~call'.restoring)
            => RaisedBreakerOpen(call')]_vars

C9_Witness ==
    /\ call.op = "restart"
    /\ Len(call.returned) >= 1
    /\ context = "page"
    /\ consecutive_failures >= circuit_breaker_threshold

\* what a wrapper can turn into a failure result
ResultErrors ==
    {"Browser not initialized", "timeout", "retryable", "fatal", "TypeError",
     "title"}

\* C10: navigate, click and type_text raise nothing but CircuitBreakerOpen:
\* every timeout, exhausted retry sequence, fatal error or missing page comes
\* back as a result with success=False and an error text, and
\* CircuitBreakerOpen is raised, never returned as a result.
C10_OnlyBreakerOpenIsRaised ==
    call.op \in GuardedOps
    => /\ call.status \in {"running", "success", "failure", "raised"}
       /\ call.status = "raised" <=> call.error = "CircuitBreakerOpen"
       /\ call.status = "failure" => call.error \in ResultErrors
       /\ call.status \in {"running", "success"} => call.error = "none"

C10_Witness ==
    /\ call.op = "click"
    /\ call.status = "failure"
    /\ call.error = "fatal"
    /\ call.outcomes[2] # <<>>

\* the operations that read the page without _retry
UnguardedOps == {"extract_content", "get_screenshot"}

\* C11: while the breaker is open (the counter has reached a threshold of at
\* least one) extract_content and get_screenshot invoke no page operation,
\* like navigate, click and type_text.
C11_AsClaimed ==
    (/\ call.op \in UnguardedOps
     /\ circuit_breaker_threshold >= 1
     /\ call.start_failures >= circuit_breaker_threshold)
    => call.outcomes = NoAttempts

\* the _retry call the call record's sleeps belong to
SleepCycle == IF pc = "idle" THEN FailingCycle(call) ELSE cycle

\* C13: between failed attempt k and attempt k+1 (1 <= k < max_retries) of one
\* _retry call the sleep lasts retry_base_delay * 2^(k-1); only a timeout or a
\* retryable error is followed by a sleep, and no sleep follows the last
\* attempt, a successful attempt or a fatal error.
C13_BackoffDoublesPerAttempt ==
    call.op \in GuardedOps
    => LET tried == call.outcomes[SleepCycle] IN
       /\ \A k \in 1..Len(call.sleeps) :
            /\ call.sleeps[k] = RetryBaseDelay * (2 ^ (k - 1))
            /\ k < max_retries
            /\ k <= Len(tried)
            /\ tried[k] \in {"timeout", "retryable"}
       /\ pc = "attempt" => Len(call.sleeps) = Len(tried)
       /\ pc = "sleep" => Len(call.sleeps) = Len(tried) - 1
       /\ (pc \in {"idle", "title"} /\ tried # <<>>)
            => Len(call.sleeps) = Len(tried) - 1

C13_Witness ==
    /\ call.op = "navigate"
    /\ call.status = "success"
    /\ call.outcomes[1] = <<"retryable", "timeout", "ok">>
    /\ call.sleeps = <<RetryBaseDelay, 2 * RetryBaseDelay>>

\* C14: click and type_text run two chained _retry calls: wait_for_selector is
\* attempted at most max_retries times, page.click / page.fill is attempted
\* only after a wait attempt of the same call succeeded and then has
\* max_retries attempts of its own; when the wait fails the action is never
\* attempted.
C14_ChainedCycles ==
    call.op \in {"click", "type_text"}
    => LET wait == call.outcomes[1]
           action == call.outcomes[2] IN
       /\ Len(wait) <= max_retries
       /\ Len(action) <= max_retries
       /\ (action # <<>> \/ cycle = 2) => (wait # <<>> /\ Last(wait) = "ok")
       /\ (call.status = "failure" /\ (wait = <<>> \/ Last(wait) # "ok"))
            => action = <<>>
       /\ (/\ call.status = "failure"
           /\ action # <<>>
           /\ call.error \in {"timeout", "retryable"})
            => Len(action) = max_retries
       /\ call.status = "success" => (action # <<>> /\ Last(action) = "ok")

C14_Witness ==
    /\ call.op = "type_text"
    /\ call.status = "failure"
    /\ max_retries >= 2
    /\ Len(call.outcomes[1]) >= 2
    /\ Len(call.outcomes[2]) = max_retries

\* C12: error classification is a case-insensitive substring match: with the
\* default config.retryable_errors an error whose message contains an entry
\* of the list in any letter case is classified retryable.
C12_AsClaimed ==
    (/\ verdict # <<>>
     /\ ConfiguredErrors = DefaultRetryableErrors
     /\ \E k \in 1..Len(ConfiguredErrors) :
            Contains(Lower(ConfiguredErrors[k]), Lower(error_message)))
    => verdict = <<TRUE>>

\* the pool's own fields, the clock aside
poolFields == <<browser, contexts, active_context_index, created, closed,
                last_activity>>

\* C15: get_context() called twice in a row returns the same context both
\* times, and the second call creates no context.
C15_SecondGetContextReturnsSame ==
    [][(/\ call.op = "get_context"
        /\ call.status = "returned"
        /\ call'.op = "get_context")
       => (/\ call'.status = "returned"
           /\ call'.returned = call.returned
           /\ created' = created
           /\ contexts' = contexts
           /\ active_context_index' = active_context_index)]_vars

C15_Witness ==
    /\ call.op = "get_context"
    /\ call.status = "returned"
    /\ call.repeated # <<>>
    /\ call.repeated[1].status = "returned"
    /\ call.repeated[1].returned = call.returned
    /\ Len(contexts) < max_contexts

\* C16: for max_contexts >= 1 the pool never holds more than max_contexts
\* contexts, and new_context() called at capacity closes exactly one context,
\* the first of the pool, and appends the new one behind the others.
C16_EvictsOldestAtCapacity ==
    /\ [](max_contexts >= 1 => Len(contexts) <= max_contexts)
    /\ [][(/\ max_contexts >= 1
           /\ Len(contexts) >= max_contexts
           /\ call'.op = "new_context"
           /\ now' = now)
          => (/\ Head(contexts) \notin closed
              /\ closed' = closed \cup {Head(contexts)}
              /\ IF call'.status = "returned"
                 THEN /\ created' = created + 1
                      /\ call'.returned = <<created'>>
                      /\ contexts' = Append(Tail(contexts), created')
                 ELSE contexts' = Tail(contexts))]_vars

C16_Witness ==
    /\ call.op = "new_context"
    /\ call.status = "returned"
    /\ Len(contexts) = max_contexts
    /\ Len(contexts) >= 2
    /\ closed = {1}
    /\ contexts[1] = 2

\* C17: cleanup_if_idle() changes nothing when the pool holds at most one
\* context or the idle time does not exceed idle_timeout; otherwise it leaves
\* exactly one context in the pool, the one that was active, with the active
\* index pointing at it, and has closed every other context.
C17_AsClaimed ==
    [][(call'.op = "cleanup_if_idle" /\ now' = now)
       => IF SecondsIdle > idle_timeout /\ Len(contexts) > 1
          THEN /\ Len(contexts') = 1
               /\ active_context_index' = 0
               /\ (0 <= active_context_index
                   /\ active_context_index < Len(contexts))
                    => contexts' = <<contexts[active_context_index + 1]>>
               /\ closed' = closed \cup ({contexts[i] : i \in 1..Len(contexts)}
                                         \ {contexts'[1]})
          ELSE UNCHANGED poolFields]_vars

\* C18: the active index is -1 exactly when the pool is empty and otherwise
\* lies within the bounds of the pool.
C18_AsClaimed ==
    /\ active_context_index = -1 <=> contexts = <<>>
    /\ contexts # <<>> => (0 <= active_context_index
                           /\ active_context_index < Len(contexts))

\* C19: after close() the pool is empty, the active index is -1 and no
\* browser is held, also when a close() it awaited raised; a second close()
\* raises nothing and changes nothing.
C19_CloseIsIdempotent ==
    /\ [](call.op = "close"
          => (/\ call.status = "returned"
              /\ contexts = <<>>
              /\ active_context_index = -1
              /\ ~browser))
    /\ [][(call.op = "close" /\ call'.op = "close")
          => (call'.status = "returned" /\ UNCHANGED poolFields)]_vars

C19_Witness ==
    /\ call.op = "close"
    /\ call.status = "returned"
    /\ call.repeated # <<>>
    /\ call.repeated[1].outcomes = <<"fatal">>
    /\ closed # {}

\* C20: is_healthy() never raises; it returns true exactly when a browser
\* exists, the pool is non-empty and the script evaluation on the active
\* context's page succeeded, false otherwise, and it changes neither the
\* pool, nor the active index, nor the last-activity time.
C20_HealthCheckIsPure ==
    /\ [](call.op = "is_healthy"
          => (/\ call.status = "returned"
              /\ call.returned \in {<<TRUE>>, <<FALSE>>}
              /\ call.returned = <<TRUE>>
                    <=> (/\ browser
                         /\ contexts # <<>>
                         /\ call.outcomes[1] = <<"ok">>)))
    /\ [][call'.op = "is_healthy" => UNCHANGED poolFields]_vars

C20_Witness ==
    /\ call.op = "is_healthy"
    /\ call.returned = <<FALSE>>
    /\ browser
    /\ contexts # <<>>
    /\ ~IndexInRange(contexts, active_context_index)

\* the contexts in the pool
Pooled == {contexts[i] : i \in 1..Len(contexts)}

\* C21: restart() returns the URLs of the contexts held before the call, in
\* pool order, skipping those whose URL cannot be read; it closes and removes
\* every context, leaves the index at -1 and a browser set by initialize(),
\* creates no context and touches no executor, so an is_healthy() right after
\* it returns false.
C21_RestartLeavesEmptyPool ==
    /\ [][(call'.op = "restart" /\ now' = now)
          => (/\ call'.status = "returned"
              /\ \E unreadable \in SUBSET Pooled :
                    call'.returned = ReadableUrls(contexts, unreadable)
              /\ closed' = closed \cup Pooled
              /\ contexts' = <<>>
              /\ active_context_index' = -1
              /\ browser'
              /\ last_activity' = now
              /\ created' = created
              /\ UNCHANGED executor)]_vars
    /\ [][(call.op = "restart" /\ call'.op = "is_healthy")
          => call'.returned = <<FALSE>>]_vars

C21_Witness ==
    /\ call.op = "restart"
    /\ call.returned = <<1>>
    /\ created = 2
    /\ closed = {1, 2}
    /\ contexts = <<>>
    /\ browser

\* C22: when closing the evicted oldest context raises and the browser
\* creates the new context, new_context() has removed the evicted context,
\* appended the new one, made it active and returned it.
C22_EvictionFailureDoesNotBlock ==
    [][(/\ call'.op = "new_context"
        /\ now' = now
        /\ call'.outcomes[1] = <<"fatal">>)
       => (/\ contexts # <<>>
           /\ Head(contexts) \in closed'
           /\ call'.outcomes[2] # <<>>
           /\ call'.outcomes[2] = <<"ok">>
                => (/\ call'.status = "returned"
                    /\ created' = created + 1
                    /\ contexts' = Append(Tail(contexts), created')
                    /\ active_context_index' = Len(contexts') - 1
                    /\ call'.returned = <<created'>>))]_vars

C22_Witness ==
    /\ call.op = "new_context"
    /\ call.status = "returned"
    /\ call.outcomes = <<<<"fatal">>, <<"ok">>>>
    /\ Len(contexts) = max_contexts
    /\ call.returned = <<contexts[active_context_index + 1]>>

\* C23: with two tasks calling new_context / get_context on one manager the
\* pool can hold more than max_contexts contexts (C23_Witness); it does so
\* only after a call started while another was suspended at an await, and
\* with two tasks by at most one context.
C23_OverflowNeedsOverlap ==
    /\ Len(contexts) > max_contexts => overlapped
    /\ Len(contexts) <= max_contexts + 1

C23_Witness ==
    /\ max_contexts >= 1
    /\ Len(contexts) > max_contexts
    /\ \A t \in Tasks : tasks[t] = TaskIdle("new_context", "returned",
                                            tasks[t].returned)

\* a capability invocation that produced a match
IsMatch(e) ==
    \/ e.tier = 1 /\ e.outcome = "visible"
    \/ e.what = "llm" /\ e.outcome \in {"found_full", "found_bare"}

\* C24: when the CSS selector matches a visible element find_element returns
\* a tier-1 match for that selector having invoked nothing else, and a later
\* tier is attempted only if no earlier attempt produced a match.
C24_TiersInOrder ==
    vision_call.op = "find_element"
    => LET inv == vision_call.invoked IN
       /\ (inv # <<>> /\ inv[1] = [tier |-> 1, what |-> "css",
                                   outcome |-> "visible"])
            => (/\ vision_call.status = "returned"
                /\ vision_call.result = SelectorMatch("css")
                /\ Len(inv) = 1)
       /\ \A i \in 1..Len(inv) : \A j \in 1..(i - 1) :
            /\ inv[j].tier <= inv[i].tier
            /\ ~IsMatch(inv[j])

C24_Witness ==
    /\ vision_call.op = "find_element"
    /\ vision_call.status = "returned"
    /\ vision_call.invoked = <<[tier |-> 1, what |-> "css", outcome |-> "visible"]>>
    /\ vision_call.result.tier = 1
    /\ vision_call.args.llm
    /\ vision_call.args.description # NoText
    /\ vision_call.args.text # NoText

\* C25: the vision model is invoked only when both a model and a description
\* were supplied and tier 1 produced no match; when its answer is a JSON
\* object with found true, find_element returns a tier-2 match and no OCR
\* pass is made.
C25_VisionOnlyWhenSupplied ==
    vision_call.op = "find_element"
    => LET inv == vision_call.invoked IN
       \A i \in 1..Len(inv) :
          inv[i].tier = 2
          => /\ vision_call.args.llm
             /\ vision_call.args.description # NoText
             /\ \A j \in 1..(i - 1) :
                    inv[j].tier = 2 \/ (inv[j].tier = 1 /\ inv[j].outcome # "visible")
             /\ (inv[i].what = "llm"
                 /\ inv[i].outcome \in {"found_full", "found_bare"})
                  => (/\ i = Len(inv)
                      /\ vision_call.status = "returned"
                      /\ vision_call.result.found
                      /\ vision_call.result.tier = 2)

C25_Witness ==
    /\ vision_call.op = "find_element"
    /\ vision_call.status = "returned"
    /\ vision_call.result.tier = 2
    /\ vision_call.args.text # NoText
    /\ Len(vision_call.invoked) >= 3
    /\ Last(vision_call.invoked) = [tier |-> 2, what |-> "llm",
                                    outcome |-> "found_bare"]

\* the OCR words that contain the target, letter case aside, with a
\* confidence above the floor
Hits(target, words) ==
    {i \in 1..Len(words) :
        /\ Contains(Lower(target), Lower(words[i].text))
        /\ words[i].conf > OcrConfidenceFloor}

\* C26: _find_by_ocr reports a match exactly when some OCR word contains the
\* target, letter case aside, with confidence above 30; the match is tier 3
\* and its coordinates are the centre of the bounding box of such a word of
\* maximal confidence.
C26_OcrPicksBestAboveFloor ==
    (vision_call.op = "_find_by_ocr" /\ vision_call.status = "returned")
    => LET H == Hits(vision_call.target, vision_call.words)
           r == vision_call.result IN
       /\ r.found <=> H # {}
       /\ r.found
            => (/\ r.tier = 3
                /\ \E i \in H :
                    /\ \A j \in H : vision_call.words[j].conf
                                        <= vision_call.words[i].conf
                    /\ r.confidence = vision_call.words[i].conf
                    /\ LET b == vision_call.words[i].bbox IN
                       r.coordinates = <<b[1] + b[3] \div 2, b[2] + b[4] \div 2>>)
       /\ ~r.found => r = NotFound

C26_Witness ==
    /\ vision_call.op = "_find_by_ocr"
    /\ vision_call.status = "returned"
    /\ Len(vision_call.words) = 2
    /\ Hits(vision_call.target, vision_call.words) = {1, 2}
    /\ vision_call.words[1].conf = OcrConfidenceFloor + 1
    /\ vision_call.words[2].bbox # vision_call.words[1].bbox
    /\ vision_call.result.confidence = 90
    /\ vision_call.result.coordinates = Center(vision_call.words[2].bbox)

\* C27: find_element never raises; its result is a match by the tier whose
\* capability produced it, or the negative result with found false and
\* neither a selector nor coordinates.
C27_NoRaiseNoGuess ==
    vision_call.op = "find_element"
    => /\ vision_call.status \in {"running", "returned"}
       /\ vision_call.status = "returned"
            => LET r == vision_call.result
                   last == Last(vision_call.invoked) IN
               IF r.found
               THEN /\ vision_call.invoked # <<>>
                    /\ r.tier = last.tier
                    /\ r.tier = 1 => last.outcome = "visible"
                    /\ r.tier = 2 => (last.what = "llm" /\ IsMatch(last))
                    /\ r.tier = 3
                         => (/\ last.outcome = "ok"
                             /\ Hits(vision_call.target, vision_call.words) # {})
                    /\ r.tier \in 1..3
               ELSE /\ r = NotFoundByAnyTier
                    /\ r.selector = "none"
                    /\ r.coordinates = <<>>

C27_Witness ==
    /\ vision_call.op = "find_element"
    /\ vision_call.status = "returned"
    /\ ~vision_call.result.found
    /\ Len(vision_call.invoked) = 4
    /\ vision_call.invoked[1].outcome = "raises"
    /\ vision_call.invoked[3] = [tier |-> 2, what |-> "llm", outcome |-> "bad_json"]
    /\ vision_call.invoked[4] = [tier |-> 3, what |-> "ocr", outcome |-> "raises"]

\* C28: after find_element has returned a match the element cache holds an
\* entry.
C28_AsClaimed ==
    (/\ vision_call.op = "find_element"
     /\ vision_call.status = "returned"
     /\ vision_call.result.found)
    => element_cache # {}

\* C29 as claimed: after a capture_page_state that returned a page state
\* with URL u the cache URL is u.
C29_AsClaimed ==
    vision_call.op = "capture_page_state" => cache_url = vision_call.url

\* C29: a capture_page_state that reads the page returns its URL u, leaves
\* the cache URL at u, and clears the cache when u differs from the previous
\* cache URL, leaving it untouched otherwise; a capture in which reading the
\* page raises returns the URL "" and leaves cache and cache URL untouched.
C29_CaptureInvalidatesOnChange ==
    [][(vision_call'.op = "capture_page_state" /\ page_url' = page_url)
       => IF vision_call'.invoked[1].outcome = "ok"
          THEN /\ vision_call'.url = page_url
               /\ cache_url' = page_url
               /\ page_url # cache_url => element_cache' = {}
               /\ page_url = cache_url => UNCHANGED element_cache
          ELSE /\ vision_call'.url = EmptyUrl
               /\ UNCHANGED <<element_cache, cache_url>>]_vars

C29_Witness ==
    /\ vision_call.op = "capture_page_state"
    /\ vision_call.invoked[1].outcome = "ok"
    /\ vision_call.url \in Urls
    /\ cache_url = vision_call.url
    /\ page_url = vision_call.url

\* C30: replan_count never exceeds max_replans, and a replan() entered with
\* replan_count at max_replans returns None having called neither the
\* language model nor a page operation and having left the count alone.
C30_ReplanBounded ==
    /\ replan_count \in 0..MaxReplans
    /\ (agent_call.op = "replan" /\ agent_call.count_before >= MaxReplans)
         => /\ agent_call.status = "returned"
            /\ agent_call.result = NoPlan
            /\ agent_call.invoked = <<>>
            /\ replan_count = agent_call.count_before

C30_Witness ==
    /\ agent_call.op = "replan"
    /\ agent_call.count_before = MaxReplans
    /\ agent_call.status = "returned"
    /\ components = [browser |-> TRUE, vision |-> TRUE, llm |-> TRUE]

\* C33: a tier-1 lookup that raises is the last tier-1 lookup of the call;
\* nothing is raised, tier 1 yields no match, tier 2 follows when a model
\* and a description were given, and tier 3 follows when there is a text to
\* search for and tier 2 produced no match.
C33_RaisingLookupEndsTier1 ==
    vision_call.op = "find_element"
    => LET inv == vision_call.invoked
           a == vision_call.args IN
       \A i \in 1..Len(inv) :
          (inv[i].tier = 1 /\ inv[i].outcome = "raises")
          => /\ \A j \in (i + 1)..Len(inv) : inv[j].tier # 1
             /\ vision_pc # "selector"
             /\ vision_call.status # "raised"
             /\ (a.llm /\ a.description # NoText)
                  => \/ vision_pc = "vision"
                     \/ Len(inv) > i /\ inv[i + 1].tier = 2
             /\ vision_call.status = "returned"
                  => /\ vision_call.result.tier # 1
                     /\ (vision_call.result.tier # 2 /\ SearchText(a) # NoText)
                          => \E j \in (i + 1)..Len(inv) : inv[j].tier = 3

C33_Witness ==
    /\ vision_call.op = "find_element"
    /\ vision_call.status = "returned"
    /\ vision_call.args.css /\ vision_call.args.role
    /\ vision_call.args.text # NoText
    /\ Len(vision_call.invoked) = 4
    /\ vision_call.invoked[1] = [tier |-> 1, what |-> "css", outcome |-> "raises"]
    /\ vision_call.invoked[2].tier = 2
    /\ vision_call.invoked[4].tier = 3
    /\ vision_call.result.tier = 3

\* C34: when execute_task has returned its summary after replan() gave it a
\* new plan, every step of the new plan has been executed.
C34_AsClaimed ==
    (/\ agent_task.returned = "summary"
     /\ agent_task.plan.origin = "replan")
    => agent_task.executed = agent_task.plan.steps

\* C32: restore_from_checkpoint calls navigate on the checkpoint's last_url
\* when that is a non-empty URL and the executor has a page (page.goto is
\* then attempted whenever max_retries and the threshold are at least 1),
\* and invokes no page operation otherwise; the navigate starts from a
\* counter of 0 whatever the checkpoint says, and with a threshold of at
\* least 1 the call never raises CircuitBreakerOpen.
C32_RestoreRenavigates ==
    call.restoring
    => /\ call.start_failures = 0
       /\ IF call.url \notin {NoUrl, EmptyUrl} /\ call.had_page
          THEN /\ call.op = "navigate"
               /\ (max_retries >= 1 /\ circuit_breaker_threshold >= 1)
                    => (call.outcomes[1] # <<>> \/ pc = "attempt")
          ELSE /\ call.op = "restore_from_checkpoint"
               /\ call.status = "returned"
               /\ call.outcomes = NoAttempts
       /\ circuit_breaker_threshold >= 1 => ~RaisedBreakerOpen(call)

C32_Witness ==
    /\ call.restoring
    /\ call.op = "navigate"
    /\ call.url \in Urls
    /\ call.status = "success"
    /\ call.failures_before >= circuit_breaker_threshold
    /\ circuit_breaker_threshold >= 1
    /\ last_url = call.url
    /\ call.last_url_before # call.url

\* C35: with max_retries below the threshold, over click and type_text
\* calls whose wait_for_selector succeeds and whose action fails on every
\* attempt, every call starts with a counter of at most max_retries and none
\* raises CircuitBreakerOpen.
C35_FlakyClicksKeepBreakerClosed ==
    /\ consecutive_failures <= max_retries
    /\ call.op \in {"click", "type_text"}
         => /\ call.start_failures <= max_retries
            /\ ~RaisedBreakerOpen(call)
            /\ call.status # "success"

C35_Witness ==
    /\ call.op = "click"
    /\ call.status = "failure"
    /\ max_retries >= 2
    /\ call.start_failures = max_retries
    /\ call.outcomes[1] = <<"ok">>
    /\ Len(call.outcomes[2]) = max_retries
    /\ consecutive_failures = max_retries

\* C36: with a threshold of at least 1 the counter stays within
\* 0 .. threshold - 1 + max_retries.
C36_CounterBounded ==
    circuit_breaker_threshold >= 1
    => /\ consecutive_failures >= 0
       /\ consecutive_failures <= circuit_breaker_threshold - 1 + max_retries

C36_Witness ==
    /\ circuit_breaker_threshold >= 2
    /\ max_retries >= 2
    /\ consecutive_failures = circuit_breaker_threshold - 1 + max_retries
    /\ call.op \in GuardedOps
    /\ call.status = "failure"

\* C37: a navigate call that has returned success=False has left last_url
\* as it was when the call started, and one that has returned success=True
\* has set it to its URL.
C37_AsClaimed ==
    call.op = "navigate"
    => /\ call.status = "failure" => last_url = call.last_url_before
       /\ call.status = "success" => last_url = call.url

\* C38: when context creation never raises, the active index is always the
\* position of the last context of the pool (-1 when it is empty);
\* get_context() creates a context only on an empty pool, the pool grows
\* beyond one context only in new_context(), and with max_contexts >= 2 the
\* context new_context() evicts is not the active one.
C38_ActiveIsLast ==
    /\ [](active_context_index = Len(contexts) - 1)
    /\ [][(call'.op = "get_context" /\ now' = now /\ created' # created)
          => contexts = <<>>]_vars
    /\ [][(Len(contexts') > Len(contexts) /\ Len(contexts') > 1)
          => call'.op = "new_context"]_vars
    /\ [][(/\ call'.op = "new_context"
           /\ now' = now
           /\ max_contexts >= 2
           /\ closed' # closed)
          => (/\ closed' \ closed = {Head(contexts)}
              /\ Head(contexts) # At(contexts, active_context_index))]_vars

C38_Witness ==
    /\ call.op = "new_context"
    /\ call.status = "returned"
    /\ max_contexts = 2
    /\ Len(contexts) = 2
    /\ closed # {}
    /\ active_context_index = 1
    /\ call.returned = <<contexts[2]>>

\* C39: no context of the pool has had close() called on it, and the
\* context a get_context() or new_context() returns has not either.
C39_NoClosedContextHandedOut ==
    /\ \A i \in 1..Len(contexts) : contexts[i] \notin closed
    /\ (call.op \in {"get_context", "new_context"} /\ call.returned # <<>>)
         => call.returned[1] \notin closed

C39_Witness ==
    /\ call.op = "get_context"
    /\ call.status = "returned"
    /\ call.returned # <<>>
    /\ Cardinality(closed) >= 2
    /\ call.returned[1] \notin closed
    /\ Len(contexts) >= 1

\* sub-task d was executed with success by the first n iterations
CompletedWithin(d, n) ==
    \E k \in 1..n : /\ results[k].task_id = d
                    /\ results[k].kind = "executed"
                    /\ results[k].success

\* C31: execute_plan has an agent execute a sub-task only if each id in its
\* depends_on is the id of a sub-task an earlier iteration executed with
\* success, and an execution that failed is the last entry of the results.
C31_DependenciesBeforeExecution ==
    /\ [][(/\ Len(results') = Len(results) + 1
           /\ Last(results').kind = "executed")
          => \A dep \in sub_task'.depends_on : CompletedWithin(dep, Len(results))]_vars
    /\ [](\A k \in 1..Len(results) :
            (results[k].kind = "executed" /\ ~results[k].success)
            => (k = Len(results) /\ orch_pc \in {"returned", "raised"}))

C31_Witness ==
    /\ Len(results) = 3
    /\ results[1].kind = "executed" /\ results[1].success
    /\ results[2].kind = "unmet"
    /\ results[3].kind = "executed" /\ ~results[3].success
    /\ sub_task.depends_on = {results[1].task_id}
    /\ orch_pc = "returned"

====
